---------------------------- MODULE Spec2Model ----------------------------
(***************************************************************************)
(* Targeting-and-placement state machine of the WebXR plane-detection app  *)
(* (src/src/main.js, WebXRPlaneDetectionApp) together with the components  *)
(* it drives: the hit-test subscription manager (src/src/webxr/planes.js,  *)
(* HitTestManager), the cursor indicators (CursorManager) and the plane    *)
(* highlights (PlaneVisualizer).                                           *)
(*                                                                         *)
(* Lengths are in centimetres (1.0 m = 100), opacities in percent          *)
(* (1.0 = 100); the position of a cursor indicator is in millimetres,      *)
(* because its surface offset is 1 mm.                                     *)
(* A behaviour covers one AR session: construction, startAR,               *)
(* frames / select events / async completions, and the session's end.      *)
(* Completions of requests issued during the session may still arrive      *)
(* after its end.                                                          *)
(***************************************************************************)
EXTENDS Integers, Sequences, FiniteSets, TLC

(***************************************************************************)
(* Program constants                                                       *)
(***************************************************************************)
OBJECT_HEIGHT_OFFSET == 5

MAX_PLACEMENT_DISTANCE == 200

MAX_INTERACTION_DISTANCE == 300

REPOSITIONING_OPACITY == 70

FULL_OPACITY == 100

\* PlaneVisualizer.findPlaneNearHitTest: 0.1 m
PROXIMITY_THRESHOLD == 10

\* CursorManager.updateCursorPosition: 0.001 m, in millimetres
SURFACE_OFFSET == 1

(***************************************************************************)
(* Bounds of the model                                                     *)
(***************************************************************************)
\* outstanding session.createAnchor requests the model lets pile up
MaxAnchorRequests == 1

\* display frames a stored hit-test result is told apart by; older results
\* count as this old
MaxResultAge == 1

(***************************************************************************)
(* Values the environment draws from                                       *)
(***************************************************************************)
Devices == {"left", "right"}

QIdentity == <<0, 0, 0, 1>>

QTurned == <<0, 1, 0, 0>>

NoPose == [ok |-> FALSE, pos |-> <<0, 0, 0>>, quat |-> QIdentity]

Pose(p, q) == [ok |-> TRUE, pos |-> p, quat |-> q]

\* poses a hit test can report (the first one is the pose of Scenario B)
HitPoses == {Pose(<<100, 0, 200>>, QIdentity), Pose(<<0, 72, 0>>, QTurned)}

\* a hit pose 5 cm from the origin of the plane space of "near"
HitPoseAtNear == Pose(<<55, 0, -50>>, QIdentity)

\* a hit pose 3 cm from the origin of the plane space of "far"
HitPoseAtFar == Pose(<<250, 0, 3>>, QIdentity)

\* hit poses without an orientation, and without a position
MalformedPoses == {Pose(<<100, 0, 200>>, << >>), Pose(<< >>, QIdentity)}

\* poses of an input device's target ray space
DevicePoses == {Pose(<<0, 0, 0>>, QIdentity)}

SquarePolygon == << <<-50, 0, -50>>, <<50, 0, -50>>, <<50, 0, 50>>, <<-50, 0, 50>> >>

\* a polygon whose centroid (50, 0, 50) is not the origin of its plane space
CornerPolygon == << <<0, 0, 0>>, <<100, 0, 0>>, <<100, 0, 100>>, <<0, 0, 100>> >>

\* column-major translation matrix, as XRRigidTransform.matrix
TranslationMatrix(t) ==
  <<1, 0, 0, 0,  0, 1, 0, 0,  0, 0, 1, 0,  t[1], t[2], t[3], 1>>

\* detected planes: handle -> orientation, polygon and pose matrix
PlaneInfo ==
  [ near |-> [orientation |-> "horizontal", polygon |-> CornerPolygon,
              matrix |-> TranslationMatrix(<<50, 0, -50>>)],
    edge |-> [orientation |-> "horizontal", polygon |-> SquarePolygon,
              matrix |-> TranslationMatrix(<<200, 0, 0>>)],
    far  |-> [orientation |-> "horizontal", polygon |-> SquarePolygon,
              matrix |-> TranslationMatrix(<<250, 0, 0>>)],
    wall |-> [orientation |-> "vertical", polygon |-> SquarePolygon,
              matrix |-> TranslationMatrix(<<0, 100, -100>>)],
    void |-> [orientation |-> "horizontal", polygon |-> << >>,
              matrix |-> TranslationMatrix(<<0, 0, -100>>)] ]

Planes == DOMAIN PlaneInfo

\* frame.detectedPlanes of a frame, in iteration order
PlaneSnapshots ==
  { <<>>, <<"near">>, <<"far">>, <<"edge", "far">>, <<"wall">>,
    <<"wall", "far", "near">> }

\* a frame with the detectedPlanes property, or without it
FrameSnapshots ==
  {[present |-> FALSE, planes |-> <<>>]} \cup
  {[present |-> TRUE, planes |-> ps] : ps \in PlaneSnapshots}

\* snapshots with a plane whose polygon has no vertex
DegenerateSnapshots ==
  {[present |-> TRUE, planes |-> ps] :
     ps \in {<<"void">>, <<"near">>, <<"void", "near">>}}

\* planes whose pose frame.getPose cannot resolve during one select event
UnresolvedCases == { {}, {"near"} }

\* what raycaster.intersectObject finds on the sub-meshes of the object,
\* before sorting: a set of <<mesh, distance>>
RayCases ==
  { {}, {<<"ground", 120>>}, {<<"ground", 350>>, <<"tree", 120>>},
    {<<"ground", 300>>}, {<<"ground", 301>>, <<"tree", 350>>} }

\* outcome of frame.getHitTestResults + getPose for one subscription
HitOutcomes == {[kind |-> "none", pose |-> NoPose]} \cup
               {[kind |-> "hit", pose |-> p] : p \in HitPoses}

\* a query that raises, and a hit whose getPose returns null
QueryFailures == {[kind |-> "throw", pose |-> NoPose],
                  [kind |-> "unposed", pose |-> NoPose]}

\* hit-test result maps handed to PlaneVisualizer.updatePlaneHighlighting
HighlighterResults ==
  UNION { [S -> {[pose |-> p, age |-> 0] :
                   p \in {HitPoseAtNear, HitPoseAtFar,
                          Pose(<<100, 0, 200>>, QIdentity),
                          Pose(<< >>, QIdentity)}}] :
          S \in SUBSET Devices }

\* plane lists handed to PlaneVisualizer.updatePlaneHighlighting
HighlighterPlanes == { <<>>, <<"near">>, <<"far">>, <<"near", "far">> }

\* a 2 m x 1 m polygon around the origin of its plane space
WidePolygon ==
  << <<-100, 0, -50>>, <<100, 0, -50>>, <<100, 0, 50>>, <<-100, 0, 50>> >>

\* a 1 m x 1 m polygon around (30, 0, 40)
OffsetPolygon ==
  << <<-20, 0, -10>>, <<80, 0, -10>>, <<80, 0, 90>>, <<-20, 0, 90>> >>

\* 0.5 m x 0.2 m: an area of exactly 0.1 m2
StripPolygon ==
  << <<-25, 0, -10>>, <<25, 0, -10>>, <<25, 0, 10>>, <<-25, 0, 10>> >>

\* 0.2 m x 0.2 m
TilePolygon ==
  << <<-10, 0, -10>>, <<10, 0, -10>>, <<10, 0, 10>>, <<-10, 0, 10>> >>

\* an XRPlane as one frame shows it, with whether frame.getPose resolves
Sighting(plane, orientation, polygon, t, lastChangedTime, resolves) ==
  [plane |-> plane, orientation |-> orientation, polygon |-> polygon,
   matrix |-> TranslationMatrix(t), lastChangedTime |-> lastChangedTime,
   resolves |-> resolves]

\* the plane "table" as first seen, moved by 0.5 m, with a new change time
\* and with a larger polygon
TableSightings ==
  UNION { { Sighting("table", "horizontal", SquarePolygon, <<200, 0, 0>>, 1, r),
            Sighting("table", "horizontal", SquarePolygon, <<250, 0, 0>>, 1, r),
            Sighting("table", "horizontal", SquarePolygon, <<200, 0, 0>>, 2, r),
            Sighting("table", "horizontal", WidePolygon, <<200, 0, 0>>, 1, r) } :
          r \in BOOLEAN }

WallSightings ==
  { Sighting("wall", "vertical", SquarePolygon, <<0, 100, -100>>, 1, r) :
    r \in BOOLEAN }

\* frames handed to PlaneDetection.processFrame: without detectedPlanes, or
\* with a set of at most one sighting of each plane
RegistryFrames ==
  {[present |-> FALSE, planes |-> << >>]} \cup
  {[present |-> TRUE, planes |-> ps] :
     ps \in {<< >>} \cup {<<t>> : t \in TableSightings}
              \cup {<<w>> : w \in WallSightings}
              \cup {<<t, w>> : t \in TableSightings, w \in WallSightings}}

\* sightings whose plane data findBestPlacementPlane is given
ScoringSightings ==
  { Sighting("table", "horizontal", SquarePolygon, <<200, 0, 0>>, 1, TRUE),
    Sighting("bench", "horizontal", SquarePolygon, <<0, 0, -150>>, 1, TRUE),
    Sighting("floor", "horizontal", WidePolygon, <<0, -100, 0>>, 1, TRUE),
    Sighting("desk", "horizontal", OffsetPolygon, <<-40, 0, 30>>, 1, TRUE),
    Sighting("strip", "horizontal", StripPolygon, <<100, 0, 0>>, 1, TRUE),
    Sighting("tile", "horizontal", TilePolygon, <<50, 0, 0>>, 1, TRUE),
    Sighting("wall", "vertical", SquarePolygon, <<0, 100, -100>>, 1, TRUE) }

\* outcome of frame.getPose(anchorSpace) in a frame
AnchorLookups == {"same", "drift", "null", "throw"}

(***************************************************************************)
(* State                                                                   *)
(***************************************************************************)
VARIABLES
  session,                \* "none" | "active" | "ended"
  hitSupported,           \* HitTestManager.isSupported
  hasAnchors,             \* 'anchors' enabled and session.createAnchor exists
  placementState,         \* this.placementState
  isPlaced,               \* this.isPlaced
  treeScene,              \* this.treeScene: exists, visible, pos, quat, opacity
  availablePlanes,        \* this.availablePlanes (sequence of plane handles)
  objectAnchor,           \* this.objectAnchor: held, pose; history: placedAt,
                          \*   current
  trackAnchoredObject,    \* this.trackAnchoredObject
  anchorRequests,         \* createAnchor requests in flight: pose; history:
                          \*   placedAt, the object position committed by the
                          \*   placement that issued the request, and current,
                          \*   whether that placement is the latest one
  inputSources,           \* session.inputSources (sequence of devices)
  activeInputSources,     \* keys of this.activeInputSources
  hitTestSetupInProgress, \* this.hitTestSetupInProgress
  pendingHitTestSources,  \* this.pendingHitTestSources
  batches,                \* setupHitTestSources calls in flight
  hitTestSources,         \* keys of HitTestManager.hitTestSources
  hitTestResults,         \* HitTestManager.hitTestResults: device ->
                          \*   pose, and age = display frames since its
                          \*   timestamp (0: stamped by the latest frame)
  isDisposed,             \* HitTestManager.isDisposed
  pendingPlacements,      \* keys of this.pendingPlacements
  cursors,                \* CursorManager.cursors: device -> visible, pos, quat
  cursorManagerDisposed,  \* CursorManager.isDisposed
  planeHighlights,        \* keys of PlaneVisualizer.planeHighlights
  planeVisualizerDisposed, \* PlaneVisualizer.isDisposed
  detectedPlanes,         \* PlaneDetection.detectedPlanes: handle -> plane data
  liveCursors,            \* history: indicators created and not destroyed, per device
  liveHighlights,         \* history: highlights created and not destroyed, per plane
  liveSubs,               \* history: granted, uncancelled subscriptions per device
  setupFailed,            \* history: devices whose last request failed
  ev                      \* history: the last event and its inputs

vars == << session, hitSupported, hasAnchors, placementState, isPlaced,
           treeScene, availablePlanes, objectAnchor, trackAnchoredObject,
           anchorRequests, inputSources, activeInputSources,
           hitTestSetupInProgress, pendingHitTestSources, batches,
           hitTestSources, hitTestResults, isDisposed, pendingPlacements,
           cursors, cursorManagerDisposed, planeHighlights,
           planeVisualizerDisposed, detectedPlanes, liveCursors,
           liveHighlights, liveSubs, setupFailed, ev >>

placementVars == << placementState, isPlaced, treeScene, objectAnchor,
                    trackAnchoredObject, anchorRequests >>

sceneVars == << availablePlanes >>

deviceVars == << inputSources >>

subscriptionVars == << activeInputSources, hitTestSetupInProgress,
                       pendingHitTestSources, batches, hitTestSources,
                       hitTestResults, liveSubs, setupFailed >>

sessionVars == << session, hitSupported, hasAnchors, isDisposed,
                 cursorManagerDisposed, planeVisualizerDisposed >>

visualVars == << cursors, liveCursors, planeHighlights, liveHighlights >>

registryVars == << detectedPlanes >>

(***************************************************************************)
(* Helpers                                                                 *)
(***************************************************************************)
Range(s) == {s[i] : i \in DOMAIN s}

Without(s, x) == SelectSeq(s, LAMBDA y : y # x)

NoTree == [exists |-> FALSE, visible |-> FALSE, pos |-> <<0, 0, 0>>,
           quat |-> QIdentity, opacity |-> FULL_OPACITY]

NoAnchor == [held |-> FALSE, pose |-> NoPose, placedAt |-> <<0, 0, 0>>,
             current |-> FALSE]

NoEvent == [kind |-> "none"]

(***************************************************************************)
(* utils/math.js                                                           *)
(***************************************************************************)
\* result[row] = sum over col of matrix[col*4 + row] * point[col]
multiplyMatrixAndPoint(matrix, point) ==
  [row \in 1..4 |->
     matrix[row] * point[1] + matrix[4 + row] * point[2]
       + matrix[8 + row] * point[3] + matrix[12 + row] * point[4]]

RECURSIVE SumCoord(_, _, _)
SumCoord(polygon, c, n) ==
  IF n = 0 THEN 0 ELSE polygon[n][c] + SumCoord(polygon, c, n - 1)

\* arithmetic mean of the vertices; the caller excludes the empty polygon
getPlaneCenter(polygon) ==
  [c \in 1..3 |-> SumCoord(polygon, c, Len(polygon)) \div Len(polygon)]

(***************************************************************************)
(* WebXRPlaneDetectionApp: placement                                       *)
(*                                                                         *)
(* The operators below take and return `self`, the record of the fields of *)
(* the app object that placement code assigns.                             *)
(***************************************************************************)
This ==
  [placementState |-> placementState, isPlaced |-> isPlaced,
   treeScene |-> treeScene, objectAnchor |-> objectAnchor,
   trackAnchoredObject |-> trackAnchoredObject,
   anchorRequests |-> anchorRequests,
   cursors |-> cursors, planeHighlights |-> planeHighlights,
   liveHighlights |-> liveHighlights]

Result(ok, self) == [ok |-> ok, self |-> self]

\* synchronous part: the request is issued when anchors are available.
\* History: the requests and the anchor of earlier placements stop being
\* current.
tryCreateAnchor(self, pose) ==
  LET earlier == [i \in DOMAIN self.anchorRequests |->
                    [self.anchorRequests[i] EXCEPT !.current = FALSE]]
      superseded == [self EXCEPT !.anchorRequests = earlier,
                                 !.objectAnchor.current = FALSE]
  IN IF hasAnchors
       THEN [superseded EXCEPT
               !.anchorRequests =
                  Append(@, [pose |-> pose,
                             placedAt |-> self.treeScene.pos,
                             current |-> TRUE])]
       ELSE superseded

placeCubeAtHitTest(self, hitResult) ==
  LET pose == hitResult.pose
  IN IF Len(pose.pos) # 3
       THEN Result(FALSE, self)   \* position.x throws, caught
     ELSE IF ~self.treeScene.exists
       THEN Result(FALSE, self)   \* this.treeScene.position throws, caught
     ELSE
       LET position == pose.pos
           treePosition == <<position[1], position[2] + OBJECT_HEIGHT_OFFSET,
                             position[3]>>
           moved == [self EXCEPT !.treeScene.pos = treePosition]
       IN IF Len(pose.quat) # 4
            THEN Result(FALSE, moved)  \* orientation.x throws after
                                       \* position.set, caught
            ELSE
              LET placed == [moved EXCEPT !.treeScene.quat = pose.quat,
                                          !.treeScene.visible = TRUE,
                                          !.placementState = "placed",
                                          !.isPlaced = TRUE]
              IN Result(TRUE, tryCreateAnchor(placed, pose))

\* variant: the object takes the orientation of the plane pose
placeCubeOnPlane_setsOrientation(self, plane, unresolved) ==
  IF plane \in unresolved
    THEN Result(FALSE, self)
  ELSE IF Len(PlaneInfo[plane].polygon) = 0
    THEN Result(FALSE, self)
  ELSE
    LET planeMatrix == PlaneInfo[plane].matrix
        planePose == Pose(<<planeMatrix[13], planeMatrix[14], planeMatrix[15]>>,
                          QIdentity)
        planeCenter == getPlaneCenter(PlaneInfo[plane].polygon)
        worldPlaneCenter ==
          multiplyMatrixAndPoint(planeMatrix,
            <<planeCenter[1], planeCenter[2], planeCenter[3], 1>>)
        treePosition == <<worldPlaneCenter[1],
                          worldPlaneCenter[2] + OBJECT_HEIGHT_OFFSET,
                          worldPlaneCenter[3]>>
    IN IF ~self.treeScene.exists
         THEN Result(FALSE, self)
         ELSE
           LET placed == [self EXCEPT !.treeScene.pos = treePosition,
                                      !.treeScene.quat = planePose.quat,
                                      !.treeScene.visible = TRUE,
                                      !.placementState = "placed",
                                      !.isPlaced = TRUE]
           IN Result(TRUE, tryCreateAnchor(placed, planePose))

\* variant: places the object at the origin of the plane space
placeCubeOnPlane_atOrigin(self, plane, unresolved) ==
  IF plane \in unresolved
    THEN Result(FALSE, self)
  ELSE IF Len(PlaneInfo[plane].polygon) = 0
    THEN Result(FALSE, self)
  ELSE
    LET planeMatrix == PlaneInfo[plane].matrix
        planePose == Pose(<<planeMatrix[13], planeMatrix[14], planeMatrix[15]>>,
                          QIdentity)
        treePosition == <<planeMatrix[13],
                          planeMatrix[14] + OBJECT_HEIGHT_OFFSET,
                          planeMatrix[15]>>
    IN IF ~self.treeScene.exists
         THEN Result(FALSE, self)
         ELSE
           LET placed == [self EXCEPT !.treeScene.pos = treePosition,
                                      !.treeScene.visible = TRUE,
                                      !.placementState = "placed",
                                      !.isPlaced = TRUE]
           IN Result(TRUE, tryCreateAnchor(placed, planePose))

placeCubeOnPlane(self, plane, unresolved) ==
  IF plane \in unresolved
    THEN Result(FALSE, self)     \* frame.getPose returned null
  ELSE IF Len(PlaneInfo[plane].polygon) = 0
    THEN Result(FALSE, self)     \* getPlaneCenter throws, caught
  ELSE
    LET planeMatrix == PlaneInfo[plane].matrix
        planePose == Pose(<<planeMatrix[13], planeMatrix[14], planeMatrix[15]>>,
                          QIdentity)
        planeCenter == getPlaneCenter(PlaneInfo[plane].polygon)
        worldPlaneCenter ==
          multiplyMatrixAndPoint(planeMatrix,
            <<planeCenter[1], planeCenter[2], planeCenter[3], 1>>)
        treePosition ==
          IF PlaneInfo[plane].orientation = "horizontal"
            THEN <<worldPlaneCenter[1],
                   worldPlaneCenter[2] + OBJECT_HEIGHT_OFFSET,
                   worldPlaneCenter[3]>>
            ELSE <<worldPlaneCenter[1], worldPlaneCenter[2],
                   worldPlaneCenter[3] + OBJECT_HEIGHT_OFFSET>>
    IN IF ~self.treeScene.exists
         THEN Result(FALSE, self)  \* this.treeScene.position throws, caught
         ELSE
           LET placed == [self EXCEPT !.treeScene.pos = treePosition,
                                      !.treeScene.visible = TRUE,
                                      !.placementState = "placed",
                                      !.isPlaced = TRUE]
           IN Result(TRUE, tryCreateAnchor(placed, planePose))

\* squared distance; Math.sqrt is monotone, so comparisons agree
Distance2(p, w) ==
  (p[1] - w[1]) * (p[1] - w[1]) + (p[2] - w[2]) * (p[2] - w[2])
    + (p[3] - w[3]) * (p[3] - w[3])

\* the loop of findClosestPlane from index i on; closestDistance2 = -1
\* stands for Infinity
RECURSIVE ClosestFrom(_, _, _, _, _, _)
ClosestFrom(planes, i, pointingPosition, unresolved, closestPlane, closestDistance2) ==
  IF i > Len(planes)
    THEN [plane |-> closestPlane, distance2 |-> closestDistance2]
  ELSE
    LET plane == planes[i]
    IN IF plane \in unresolved \/ Len(PlaneInfo[plane].polygon) = 0
         THEN ClosestFrom(planes, i + 1, pointingPosition, unresolved,
                          closestPlane, closestDistance2)
         ELSE
           LET planeCenter == getPlaneCenter(PlaneInfo[plane].polygon)
               worldPlanePos ==
                 multiplyMatrixAndPoint(PlaneInfo[plane].matrix,
                   <<planeCenter[1], planeCenter[2], planeCenter[3], 1>>)
               distance2 == Distance2(pointingPosition, worldPlanePos)
           IN IF closestDistance2 = -1 \/ distance2 < closestDistance2
                THEN ClosestFrom(planes, i + 1, pointingPosition, unresolved,
                                 plane, distance2)
                ELSE ClosestFrom(planes, i + 1, pointingPosition, unresolved,
                                 closestPlane, closestDistance2)

\* variant: accepts a plane at exactly the maximum distance
findClosestPlane_inclusive(pointingPosition, unresolved) ==
  IF Len(availablePlanes) = 0 THEN "none"
  ELSE
    LET closest == ClosestFrom(availablePlanes, 1, pointingPosition,
                               unresolved, "none", -1)
    IN IF closest.distance2 # -1
          /\ closest.distance2
               <= MAX_PLACEMENT_DISTANCE * MAX_PLACEMENT_DISTANCE
         THEN closest.plane
         ELSE "none"

\* returns a plane handle, or "none" for null
findClosestPlane(pointingPosition, unresolved) ==
  IF Len(availablePlanes) = 0 THEN "none"
  ELSE
    LET closest == ClosestFrom(availablePlanes, 1, pointingPosition,
                               unresolved, "none", -1)
    IN IF closest.distance2 # -1
          /\ closest.distance2
               < MAX_PLACEMENT_DISTANCE * MAX_PLACEMENT_DISTANCE
         THEN closest.plane
         ELSE "none"

(***************************************************************************)
(* HitTestManager: read accessors                                          *)
(***************************************************************************)
isHitTestSupported == hitSupported /\ ~isDisposed

\* null is a result whose pose is NoPose
NoResult == [pose |-> NoPose, age |-> 0]

getHitTestResult(inputSource) ==
  IF isDisposed THEN NoResult
  ELSE IF inputSource \in DOMAIN hitTestResults
    THEN hitTestResults[inputSource]
    ELSE NoResult

getAllHitTestResults == IF isDisposed THEN << >> ELSE hitTestResults

(***************************************************************************)
(* CursorManager                                                           *)
(*                                                                         *)
(* The operators take and return `cm`, the record of the manager's fields: *)
(* cursors, live (indicators created and not destroyed) and isDisposed.    *)
(***************************************************************************)
CursorManagerState ==
  [cursors |-> cursors, live |-> liveCursors,
   isDisposed |-> cursorManagerDisposed]

\* a new THREE.Group: visible, at the origin
createCursor == [visible |-> TRUE, pos |-> <<0, 0, 0>>, quat |-> QIdentity]

updateCursorPosition(cursor, hitResult) ==
  LET pose == hitResult.pose
  IN IF ~pose.ok \/ Len(pose.pos) # 3 \/ Len(pose.quat) # 4
       THEN [cursor EXCEPT !.visible = FALSE]
       ELSE [cursor EXCEPT
               !.pos = <<10 * pose.pos[1], 10 * pose.pos[2] + SURFACE_OFFSET,
                         10 * pose.pos[3]>>,
               !.quat = pose.quat]

updateCursors(cm, results) ==
  IF cm.isDisposed THEN cm
  ELSE
    [cm EXCEPT
       !.cursors =
          [d \in DOMAIN cm.cursors \cup DOMAIN results |->
             IF d \in DOMAIN results
               THEN
                 LET cursor == IF d \in DOMAIN cm.cursors
                                 THEN cm.cursors[d] ELSE createCursor
                 IN [updateCursorPosition(cursor, results[d])
                       EXCEPT !.visible = TRUE]
               ELSE [cm.cursors[d] EXCEPT !.visible = FALSE]],
       !.live =
          [d \in Devices |->
             IF d \in DOMAIN results \ DOMAIN cm.cursors
               THEN cm.live[d] + 1 ELSE cm.live[d]]]

\* variant: drops the cursors instead of hiding them
hideAllCursors_drops(allCursors) == << >>

hideAllCursors(allCursors) ==
  [d \in DOMAIN allCursors |-> [allCursors[d] EXCEPT !.visible = FALSE]]

\* variant: hides the cursors of inactive devices instead of removing them
cleanupInactiveCursors_hides(cm, activeSources) ==
  [cm EXCEPT
     !.cursors = [d \in DOMAIN cm.cursors |->
                    IF d \in activeSources THEN cm.cursors[d]
                    ELSE [cm.cursors[d] EXCEPT !.visible = FALSE]]]

\* removeCursor of every cursor whose device is not active
cleanupInactiveCursors(cm, activeSources) ==
  [cm EXCEPT
     !.cursors = [d \in DOMAIN cm.cursors \cap activeSources |->
                    cm.cursors[d]],
     !.live = [d \in Devices |->
                 IF d \in DOMAIN cm.cursors \ activeSources
                   THEN cm.live[d] - 1 ELSE cm.live[d]]]

CursorManager_dispose(cm) ==
  IF cm.isDisposed THEN cm
  ELSE [cursors |-> << >>,
        live |-> [d \in Devices |->
                    IF d \in DOMAIN cm.cursors
                      THEN cm.live[d] - 1 ELSE cm.live[d]],
        isDisposed |-> TRUE]

(***************************************************************************)
(* PlaneVisualizer                                                         *)
(*                                                                         *)
(* The operators take and return `pv`: highlights (the planes that have a  *)
(* highlight object), live (highlights created and not destroyed) and      *)
(* isDisposed.                                                             *)
(***************************************************************************)
PlaneVisualizerState ==
  [highlights |-> planeHighlights, live |-> liveHighlights,
   isDisposed |-> planeVisualizerDisposed]

\* planePose.transform.position
PlanePosition(plane) ==
  <<PlaneInfo[plane].matrix[13], PlaneInfo[plane].matrix[14],
    PlaneInfo[plane].matrix[15]>>

\* the loop of findPlaneNearHitTest from index i on; -1 stands for Infinity
RECURSIVE NearFrom(_, _, _, _, _)
NearFrom(planes, i, hitPosition, closestPlane, closestDistance2) ==
  IF i > Len(planes) THEN closestPlane
  ELSE
    LET distance2 == Distance2(hitPosition, PlanePosition(planes[i]))
    IN IF (closestDistance2 = -1 \/ distance2 < closestDistance2)
            /\ distance2 < PROXIMITY_THRESHOLD * PROXIMITY_THRESHOLD
         THEN NearFrom(planes, i + 1, hitPosition, planes[i], distance2)
         ELSE NearFrom(planes, i + 1, hitPosition, closestPlane,
                       closestDistance2)

\* returns a plane handle, or "none" for null
findPlaneNearHitTest(hitResult, planes) ==
  IF ~hitResult.pose.ok \/ Len(hitResult.pose.pos) # 3 THEN "none"
  ELSE NearFrom(planes, 1, hitResult.pose.pos, "none", -1)

\* whether createPlaneHighlight returns a highlight for the plane
createPlaneHighlight(plane) == Len(PlaneInfo[plane].polygon) >= 3

clearAllHighlights(highlights, live) ==
  [highlights |-> {},
   live |-> [p \in Planes |-> IF p \in highlights THEN live[p] - 1
                                                  ELSE live[p]]]

\* variant: the highlights of planes no longer targeted are kept
updatePlaneHighlighting_keepsOld(pv, results, planes, raises) ==
  IF pv.isDisposed \/ Len(planes) = 0 \/ raises
    THEN [pv EXCEPT
            !.highlights = {},
            !.live = clearAllHighlights(pv.highlights, pv.live).live]
  ELSE
    LET targetedPlanes ==
          {findPlaneNearHitTest(results[d], planes) : d \in DOMAIN results}
            \ {"none"}
        created == {p \in targetedPlanes \ pv.highlights :
                      createPlaneHighlight(p)}
    IN [pv EXCEPT
          !.highlights = pv.highlights \cup created,
          !.live = [p \in Planes |->
                      IF p \in created THEN pv.live[p] + 1 ELSE pv.live[p]]]

\* raises: the body of the try raises (hitTestResults is not iterable, a
\* highlight cannot be removed from the scene) and the catch clears
updatePlaneHighlighting(pv, results, planes, raises) ==
  IF pv.isDisposed \/ Len(planes) = 0 \/ raises
    THEN [pv EXCEPT
            !.highlights = {},
            !.live = clearAllHighlights(pv.highlights, pv.live).live]
  ELSE
    LET targetedPlanes ==
          {findPlaneNearHitTest(results[d], planes) : d \in DOMAIN results}
            \ {"none"}
        created == {p \in targetedPlanes \ pv.highlights :
                      createPlaneHighlight(p)}
        removed == pv.highlights \ targetedPlanes
    IN [pv EXCEPT
          !.highlights = (pv.highlights \cup created) \ removed,
          !.live = [p \in Planes |->
                      IF p \in created THEN pv.live[p] + 1
                      ELSE IF p \in removed THEN pv.live[p] - 1
                      ELSE pv.live[p]]]

\* variant: only sets the flag
PlaneVisualizer_dispose_flagOnly(pv) == [pv EXCEPT !.isDisposed = TRUE]

PlaneVisualizer_dispose(pv) ==
  IF pv.isDisposed THEN pv
  ELSE [highlights |-> {},
        live |-> clearAllHighlights(pv.highlights, pv.live).live,
        isDisposed |-> TRUE]

(***************************************************************************)
(* WebXRPlaneDetectionApp: select                                          *)
(***************************************************************************)
\* variant: the visual feedback is left as it is
HideVisualFeedback_none(self) == self

\* hideAllCursors and clearAllHighlights after a successful placement
HideVisualFeedback(self) ==
  [self EXCEPT
     !.cursors = hideAllCursors(@),
     !.planeHighlights = {},
     !.liveHighlights =
        clearAllHighlights(self.planeHighlights, self.liveHighlights).live]

\* the resolution shared by attemptPlacement and attemptRepositioning:
\* hit-test result first, closest plane as the fallback
ResolvePlacement(self, inputSource, inputPose, unresolved) ==
  LET hitResult == getHitTestResult(inputSource)
      byHitTest ==
        IF isHitTestSupported /\ hitResult.pose.ok
          THEN placeCubeAtHitTest(self, hitResult)
          ELSE Result(FALSE, self)
  IN IF byHitTest.ok THEN byHitTest
     ELSE IF ~inputPose.ok THEN Result(FALSE, byHitTest.self)
     ELSE
       LET targetPlane == findClosestPlane(inputPose.pos, unresolved)
       IN IF targetPlane # "none"
            THEN placeCubeOnPlane(byHitTest.self, targetPlane, unresolved)
            ELSE Result(FALSE, byHitTest.self)

attemptPlacement(self, inputSource, inputPose, unresolved) ==
  IF Len(availablePlanes) = 0 THEN self
  ELSE
    LET r == ResolvePlacement(self, inputSource, inputPose, unresolved)
    IN IF r.ok
         THEN HideVisualFeedback([r.self EXCEPT !.placementState = "placed"])
         ELSE r.self

\* variant: hides the object while it is being moved
startRepositioning_hides(self) ==
  LET cleared == IF self.objectAnchor.held
                   THEN [self EXCEPT !.objectAnchor = NoAnchor,
                                     !.trackAnchoredObject = FALSE]
                   ELSE self
  IN [cleared EXCEPT
        !.placementState = "repositioning",
        !.isPlaced = FALSE,
        !.treeScene.visible = FALSE,
        !.treeScene.opacity =
           IF self.treeScene.exists THEN REPOSITIONING_OPACITY ELSE @]

\* variant: leaves the placed flag set
startRepositioning_keepsFlag(self) ==
  LET cleared == IF self.objectAnchor.held
                   THEN [self EXCEPT !.objectAnchor = NoAnchor,
                                     !.trackAnchoredObject = FALSE]
                   ELSE self
  IN [cleared EXCEPT
        !.placementState = "repositioning",
        !.treeScene.opacity =
           IF self.treeScene.exists THEN REPOSITIONING_OPACITY ELSE @]

\* variant: enters the declared but unused 'preview' state
startRepositioning_preview(self) ==
  [self EXCEPT !.placementState = "preview", !.isPlaced = FALSE]

startRepositioning(self) ==
  LET cleared == IF self.objectAnchor.held
                   THEN [self EXCEPT !.objectAnchor = NoAnchor,
                                     !.trackAnchoredObject = FALSE]
                   ELSE self
  IN [cleared EXCEPT
        !.placementState = "repositioning",
        !.isPlaced = FALSE,
        !.treeScene.opacity =
           IF self.treeScene.exists THEN REPOSITIONING_OPACITY ELSE @]

\* variant: does not restore the opacity
finishRepositioning_keepsOpacity(self) ==
  HideVisualFeedback(
    [self EXCEPT !.placementState = "placed", !.isPlaced = TRUE])

\* variant: goes back to scanning after a re-placement
finishRepositioning_toScanning(self) ==
  HideVisualFeedback(
    [self EXCEPT
       !.placementState = "scanning",
       !.isPlaced = FALSE,
       !.treeScene.opacity =
          IF self.treeScene.exists THEN FULL_OPACITY ELSE @])

finishRepositioning(self) ==
  HideVisualFeedback(
    [self EXCEPT
       !.placementState = "placed",
       !.isPlaced = TRUE,
       !.treeScene.opacity =
          IF self.treeScene.exists THEN FULL_OPACITY ELSE @])

attemptRepositioning(self, inputSource, inputPose, unresolved) ==
  IF Len(availablePlanes) = 0 THEN self
  ELSE
    LET r == ResolvePlacement(self, inputSource, inputPose, unresolved)
    IN IF r.ok THEN finishRepositioning(r.self) ELSE r.self

\* raycaster.intersectObject(treeScene, true): the hits on the sub-meshes,
\* sorted by ascending distance
RECURSIVE intersectObject(_)
intersectObject(hits) ==
  IF hits = {} THEN <<>>
  ELSE
    LET nearest == CHOOSE h \in hits : \A g \in hits : h[2] <= g[2]
    IN <<nearest>> \o intersectObject(hits \ {nearest})

\* variant: the range test excludes the maximum distance itself
checkCubeInteraction_strict(self, inputPose, rays) ==
  IF ~self.treeScene.exists \/ ~self.treeScene.visible THEN self
  ELSE IF ~inputPose.ok THEN self
  ELSE
    LET intersections == intersectObject(rays)
    IN IF Len(intersections) > 0
            /\ intersections[1][2] < MAX_INTERACTION_DISTANCE
         THEN startRepositioning(self)
         ELSE self

\* variant: no range test on the intersection
checkCubeInteraction_anyDistance(self, inputPose, rays) ==
  IF ~self.treeScene.exists \/ ~self.treeScene.visible THEN self
  ELSE IF ~inputPose.ok THEN self
  ELSE
    LET intersections == intersectObject(rays)
    IN IF Len(intersections) > 0 THEN startRepositioning(self) ELSE self

checkCubeInteraction(self, inputPose, rays) ==
  IF ~self.treeScene.exists \/ ~self.treeScene.visible THEN self
  ELSE IF ~inputPose.ok THEN self
  ELSE
    LET intersections == intersectObject(rays)
    IN IF Len(intersections) > 0
         THEN
           LET distance == intersections[1][2]
           IN IF distance <= MAX_INTERACTION_DISTANCE
                THEN startRepositioning(self)
                ELSE self
         ELSE self

\* variant: no catch swallows an exception
Catchers_none == {}

\* the functions of the select path whose body runs in a try whose catch
\* logs and returns
Catchers ==
  {"placeCubeAtHitTest", "placeCubeOnPlane", "findClosestPlane",
   "attemptPlacement", "attemptRepositioning", "checkCubeInteraction"}

\* the exceptions thrown while a select is handled: for each, the functions
\* on the call stack whose try block it is thrown in, innermost first.
\* placeCubeAtHitTest fails only by throwing; getPlaneCenter throws on an
\* empty polygon; this.treeScene.position throws without an object.
ThrowSites(self, inputSource, inputPose, unresolved) ==
  IF self.placementState \notin {"scanning", "repositioning"}
       \/ Len(availablePlanes) = 0
    THEN {}
  ELSE
    LET attempt == IF self.placementState = "scanning"
                     THEN "attemptPlacement" ELSE "attemptRepositioning"
        hitResult == getHitTestResult(inputSource)
        tried == isHitTestSupported /\ hitResult.pose.ok
        byHitTest == tried /\ placeCubeAtHitTest(self, hitResult).ok
        fallback == ~byHitTest /\ inputPose.ok
        targetPlane == findClosestPlane(inputPose.pos, unresolved)
    IN (IF tried /\ ~byHitTest
          THEN {<<"placeCubeAtHitTest", attempt>>} ELSE {})
       \cup
       (IF fallback
             /\ \E i \in DOMAIN availablePlanes :
                  /\ availablePlanes[i] \notin unresolved
                  /\ Len(PlaneInfo[availablePlanes[i]].polygon) = 0
          THEN {<<"findClosestPlane", attempt>>} ELSE {})
       \cup
       (IF fallback /\ targetPlane # "none"
             /\ targetPlane \notin unresolved
             /\ (Len(PlaneInfo[targetPlane].polygon) = 0
                   \/ ~self.treeScene.exists)
          THEN {<<"placeCubeOnPlane", attempt>>} ELSE {})

\* an exception leaves the handler when no function on its stack catches it
Escapes(stack) == \A i \in DOMAIN stack : stack[i] \notin Catchers

\* the 'select' listener
selectHandler(inputSource, inputPose, unresolved, rays) ==
  /\ session = "active"
  /\ inputSource \in Range(inputSources)
  /\ \E self \in
         { IF placementState = "scanning"
             THEN attemptPlacement(This, inputSource, inputPose, unresolved)
           ELSE IF placementState = "placed"
             THEN checkCubeInteraction(This, inputPose, rays)
           ELSE IF placementState = "repositioning"
             THEN attemptRepositioning(This, inputSource, inputPose,
                                       unresolved)
           ELSE This } :
        /\ Len(self.anchorRequests) <= MaxAnchorRequests
        /\ placementState' = self.placementState
        /\ isPlaced' = self.isPlaced
        /\ treeScene' = self.treeScene
        /\ objectAnchor' = self.objectAnchor
        /\ trackAnchoredObject' = self.trackAnchoredObject
        /\ anchorRequests' = self.anchorRequests
        /\ cursors' = self.cursors
        /\ planeHighlights' = self.planeHighlights
        /\ liveHighlights' = self.liveHighlights
  /\ ev' = [kind |-> "select", dev |-> inputSource, pre |-> placementState,
            inputPose |-> inputPose, unresolved |-> unresolved,
            rays |-> rays,
            thrown |-> ThrowSites(This, inputSource, inputPose, unresolved),
            raised |-> \E stack \in ThrowSites(This, inputSource, inputPose,
                                               unresolved) : Escapes(stack)]
  /\ UNCHANGED << sceneVars, deviceVars, subscriptionVars, sessionVars,
                  pendingPlacements, liveCursors, registryVars >>

\* the 'selectstart' listener
selectStartHandler(inputSource) ==
  /\ session = "active"
  /\ inputSource \in Range(inputSources)
  /\ pendingPlacements' = IF placementState = "scanning"
                            THEN pendingPlacements \cup {inputSource}
                            ELSE pendingPlacements
  /\ ev' = [kind |-> "selectstart", dev |-> inputSource]
  /\ UNCHANGED << placementVars, sceneVars, deviceVars, subscriptionVars,
                  sessionVars, visualVars, registryVars >>

\* the 'selectend' listener
selectEndHandler(inputSource) ==
  /\ session = "active"
  /\ inputSource \in Range(inputSources)
  /\ pendingPlacements' = pendingPlacements \ {inputSource}
  /\ ev' = [kind |-> "selectend", dev |-> inputSource]
  /\ UNCHANGED << placementVars, sceneVars, deviceVars, subscriptionVars,
                  sessionVars, visualVars, registryVars >>

(***************************************************************************)
(* HitTestManager                                                          *)
(***************************************************************************)
\* the loop of setupHitTestSources skips sources that already have a
\* subscription; what is left starts with the next source to request
RECURSIVE SkipSubscribed(_, _)
SkipSubscribed(list, sources) ==
  IF list = <<>> THEN <<>>
  ELSE IF Head(list) \in sources THEN SkipSubscribed(Tail(list), sources)
  ELSE list

\* the part of setupHitTestSources that runs before its first await:
\* <<>> when the call returns without a request, else the batch in flight
setupHitTestSources(sourcesToSetup) ==
  IF ~hitSupported \/ isDisposed THEN <<>>
  ELSE
    LET todo == SkipSubscribed(sourcesToSetup, hitTestSources)
    IN IF todo = <<>> THEN <<>>
       ELSE << [all |-> sourcesToSetup, cur |-> Head(todo),
                rest |-> Tail(todo)] >>

\* hitTestSource.cancel() of the subscriptions of the devices in `gone`
Cancel(live, gone) ==
  [d \in Devices |-> IF d \in gone THEN live[d] - 1 ELSE live[d]]

\* variant: the results of the cancelled subscriptions are kept
cleanupInactiveSources_keepsResults(sources, results, live, currentSources) ==
  [sources |-> sources \cap currentSources,
   results |-> results,
   live |-> Cancel(live, sources \ currentSources)]

cleanupInactiveSources(sources, results, live, currentSources) ==
  [sources |-> sources \cap currentSources,
   results |-> [d \in DOMAIN results \ (sources \ currentSources)
                  |-> results[d]],
   live |-> Cancel(live, sources \ currentSources)]

\* variant: the results of earlier frames are not cleared
updateHitTests_noClear(sources, results, hits) ==
  IF ~hitSupported \/ isDisposed THEN results
  ELSE [d \in {s \in sources : hits[s].kind = "hit"} \cup DOMAIN results |->
          IF d \in sources /\ hits[d].kind = "hit"
            THEN [pose |-> hits[d].pose, age |-> 0]
            ELSE results[d]]

\* hits: device -> outcome of this frame's query of its subscription; a
\* query that raises and a hit without a pose store nothing
updateHitTests(sources, results, hits) ==
  IF ~hitSupported \/ isDisposed THEN results
  ELSE [d \in {s \in sources : hits[s].kind = "hit"} |->
          [pose |-> hits[d].pose, age |-> 0]]

\* the stored results as the next display frame finds them
Aged(results) ==
  [d \in DOMAIN results |->
     [results[d] EXCEPT
        !.age = IF @ < MaxResultAge THEN @ + 1 ELSE MaxResultAge]]

\* the fields of the manager, as dispose takes and returns them
HitTestManagerState ==
  [sources |-> hitTestSources, results |-> hitTestResults,
   live |-> liveSubs, isDisposed |-> isDisposed]

\* variant: no early return, and the maps are not cleared
HitTestManager_dispose_keepsMaps(m) ==
  [m EXCEPT !.live = Cancel(m.live, m.sources), !.isDisposed = TRUE]

HitTestManager_dispose(m) ==
  IF m.isDisposed THEN m
  ELSE [sources |-> {}, results |-> << >>,
        live |-> Cancel(m.live, m.sources), isDisposed |-> TRUE]

(***************************************************************************)
(* WebXRPlaneDetectionApp: frame loop                                      *)
(***************************************************************************)
\* variant: no guard
setupIdle_always == TRUE

\* the guard against a second concurrent setup call
setupIdle == ~hitTestSetupInProgress

\* variant: the catch continuation clears the flag but not the pending set
setupSettled_catchKeepsPending(all, rejected) ==
  IF rejected
    THEN [pending |-> pendingHitTestSources, inProgress |-> FALSE]
    ELSE [pending |-> pendingHitTestSources \ Range(all),
          inProgress |-> FALSE]

\* the then / catch continuation of the setup call for the sources `all`
setupSettled(all, rejected) ==
  IF rejected
    THEN [pending |-> pendingHitTestSources \ Range(all),
          inProgress |-> FALSE]
    ELSE [pending |-> pendingHitTestSources \ Range(all),
          inProgress |-> FALSE]

\* returns the fields updateInputSources leaves behind, with the
\* continuation of a setup call that returned without awaiting applied
updateInputSources ==
  LET currentSources == Range(inputSources)
      newSources == SelectSeq(inputSources,
                              LAMBDA s : s \notin activeInputSources)
      sourcesToSetup == SelectSeq(newSources,
                                  LAMBDA s : s \notin pendingHitTestSources)
      starts == Len(newSources) > 0 /\ setupIdle /\ Len(sourcesToSetup) > 0
      started == IF starts THEN setupHitTestSources(sourcesToSetup) ELSE <<>>
      removed == activeInputSources \ currentSources
      cleaned == cleanupInactiveSources(hitTestSources, hitTestResults,
                                        liveSubs, currentSources)
  IN [active |-> (activeInputSources \cup currentSources) \ removed,
      inProgress
      |-> IF Len(newSources) > 0 /\ setupIdle
            THEN started # <<>>
            ELSE hitTestSetupInProgress,
      pending |-> IF started # <<>>
                    THEN (pendingHitTestSources \cup Range(sourcesToSetup))
                           \ removed
                    ELSE pendingHitTestSources \ removed,
      batches |-> batches \o started,
      sources |-> cleaned.sources,
      results |-> cleaned.results,
      live |-> cleaned.live,
      failed |-> setupFailed \ removed,
      placements |-> pendingPlacements \ removed,
      cursorManager |-> cleanupInactiveCursors(CursorManagerState,
                                               currentSources)]

scanForPlanes(snapshot) ==
  IF ~snapshot.present THEN availablePlanes
  ELSE IF Len(snapshot.planes) = 0 THEN availablePlanes
  ELSE SelectSeq(snapshot.planes,
                 LAMBDA plane : PlaneInfo[plane].orientation = "horizontal")

\* the pose frame.getPose(anchorSpace, refSpace) reports for a lookup
AnchorPose(anchor, lookup) ==
  IF lookup = "same" THEN anchor.pose
  ELSE IF lookup = "drift"
    THEN [anchor.pose EXCEPT !.pos = <<@[1] + 1, @[2], @[3]>>]
  ELSE NoPose

\* variant: a failed lookup leaves tracking on
updateAnchoredObject_keepsTracking(self, lookup) ==
  IF ~self.trackAnchoredObject \/ ~self.objectAnchor.held
       \/ ~self.treeScene.exists
    THEN self
  ELSE
    LET anchorPose == AnchorPose(self.objectAnchor, lookup)
    IN IF lookup # "throw" /\ anchorPose.ok
         THEN [self EXCEPT
                 !.treeScene.pos = <<anchorPose.pos[1],
                                     anchorPose.pos[2] + OBJECT_HEIGHT_OFFSET,
                                     anchorPose.pos[3]>>,
                 !.treeScene.quat = anchorPose.quat]
         ELSE self

updateAnchoredObject(self, lookup) ==
  IF ~self.trackAnchoredObject \/ ~self.objectAnchor.held
       \/ ~self.treeScene.exists
    THEN self
  ELSE
    LET anchorPose == AnchorPose(self.objectAnchor, lookup)
    IN IF lookup # "throw" /\ anchorPose.ok
         THEN [self EXCEPT
                 !.treeScene.pos = <<anchorPose.pos[1],
                                     anchorPose.pos[2] + OBJECT_HEIGHT_OFFSET,
                                     anchorPose.pos[3]>>,
                 !.treeScene.quat = anchorPose.quat]
         ELSE [self EXCEPT !.trackAnchoredObject = FALSE]

\* the hit-test, cursor and highlight part of a frame in scanning or
\* repositioning, after updateInputSources returned u
UpdateInteraction(u, hits) ==
  \E results \in
       { IF isHitTestSupported /\ u.active # {} /\ u.sources # {}
           THEN updateHitTests(u.sources, Aged(u.results), hits)
           ELSE Aged(u.results) } :
    LET allResults == IF isDisposed THEN << >> ELSE results
        cm == IF u.active # {} /\ DOMAIN allResults # {}
                THEN updateCursors(u.cursorManager, allResults)
                ELSE [u.cursorManager EXCEPT !.cursors = hideAllCursors(@)]
        cleared == [PlaneVisualizerState EXCEPT
                      !.highlights = {},
                      !.live = clearAllHighlights(planeHighlights,
                                                  liveHighlights).live]
        pv == IF u.active = {} THEN cleared
              ELSE IF Len(availablePlanes) = 0 THEN PlaneVisualizerState
              ELSE IF DOMAIN allResults # {}
                THEN updatePlaneHighlighting(PlaneVisualizerState,
                                             allResults, availablePlanes,
                                             FALSE)
              ELSE cleared
    IN /\ hitTestResults' = results
       /\ \E c \in {cm} : cursors' = c.cursors /\ liveCursors' = c.live
       /\ \E p \in {pv} : /\ planeHighlights' = p.highlights
                           /\ liveHighlights' = p.live

onXRFrame(snapshot, hits, lookup) ==
  /\ session = "active"
  /\ IF placementState \in {"scanning", "repositioning"}
       THEN
         \E u \in {updateInputSources} :
            /\ activeInputSources' = u.active
            /\ hitTestSetupInProgress' = u.inProgress
            /\ pendingHitTestSources' = u.pending
            /\ batches' = u.batches
            /\ hitTestSources' = u.sources
            /\ liveSubs' = u.live
            /\ setupFailed' = u.failed
            /\ pendingPlacements' = u.placements
            /\ UpdateInteraction(u, hits)
       ELSE /\ hitTestResults' = Aged(hitTestResults)
            /\ UNCHANGED << activeInputSources, hitTestSetupInProgress,
                            pendingHitTestSources, batches, hitTestSources,
                            liveSubs, setupFailed, pendingPlacements,
                            visualVars >>
  /\ availablePlanes' = scanForPlanes(snapshot)
  /\ \E self \in { IF placementState = "placed"
                      THEN updateAnchoredObject(This, lookup)
                      ELSE This } :
        /\ treeScene' = self.treeScene
        /\ trackAnchoredObject' = self.trackAnchoredObject
  /\ ev' = [kind |-> "tick", pre |-> placementState, hits |-> hits,
            snapshot |-> snapshot, lookup |-> lookup,
            removed |-> IF placementState = "placed" THEN {}
                        ELSE activeInputSources \ Range(inputSources),
            cancelled |-> IF placementState = "placed" THEN {}
                          ELSE hitTestSources \ Range(inputSources),
            destroyed |-> IF placementState = "placed" THEN {}
                          ELSE DOMAIN cursors \ Range(inputSources)]
  /\ UNCHANGED << placementState, isPlaced, objectAnchor, anchorRequests,
                  deviceVars, sessionVars, registryVars >>

(***************************************************************************)
(* Async completions                                                       *)
(***************************************************************************)
RemoveAt(s, i) == SubSeq(s, 1, i - 1) \o SubSeq(s, i + 1, Len(s))

\* session.requestHitTestSource of batch i settles; outcome is "grant",
\* "fail" (an error other than InvalidStateError) or "invalid"
\* (InvalidStateError).  When the loop ends, the then / catch continuation
\* of updateInputSources runs.
HitTestRequestSettles(i, outcome, rejected) ==
  /\ i \in DOMAIN batches
  /\ LET b == batches[i]
         sources == IF outcome = "grant" THEN hitTestSources \cup {b.cur}
                                         ELSE hitTestSources
         todo == IF outcome = "invalid" \/ session = "ended" THEN <<>>
                 ELSE SkipSubscribed(b.rest, sources)
     IN /\ hitTestSources' = sources
        /\ liveSubs' = IF outcome = "grant"
                         THEN [liveSubs EXCEPT ![b.cur] = @ + 1]
                         ELSE liveSubs
        /\ setupFailed' =
             IF outcome = "grant" THEN setupFailed \ {b.cur}
             ELSE IF b.cur \in activeInputSources
               THEN setupFailed \cup {b.cur}
             ELSE setupFailed
        /\ IF todo # <<>>
             THEN /\ batches' = [batches EXCEPT ![i].cur = Head(todo),
                                                ![i].rest = Tail(todo)]
                  /\ UNCHANGED << pendingHitTestSources,
                                  hitTestSetupInProgress >>
                  /\ ev' = [kind |-> "request", dev |-> b.cur,
                            outcome |-> outcome, done |-> FALSE,
                            all |-> b.all, rejected |-> FALSE]
             ELSE /\ batches' = RemoveAt(batches, i)
                  /\ pendingHitTestSources' =
                       setupSettled(b.all, rejected).pending
                  /\ hitTestSetupInProgress' =
                       setupSettled(b.all, rejected).inProgress
                  /\ ev' = [kind |-> "request", dev |-> b.cur,
                            outcome |-> outcome, done |-> TRUE,
                            all |-> b.all, rejected |-> rejected]
  /\ UNCHANGED << placementVars, sceneVars, deviceVars, sessionVars,
                  activeInputSources, hitTestResults, pendingPlacements,
                  visualVars, registryVars >>

\* variant: a rejected createAnchor takes the placement back
AnchorRequestSettles_revertsOnFailure(i, ok) ==
  /\ i \in DOMAIN anchorRequests
  /\ anchorRequests' = RemoveAt(anchorRequests, i)
  /\ IF ok
       THEN /\ objectAnchor' = [held |-> TRUE,
                                  pose |-> anchorRequests[i].pose,
                                  placedAt |-> anchorRequests[i].placedAt,
                                  current |-> anchorRequests[i].current]
            /\ trackAnchoredObject' = TRUE
            /\ UNCHANGED << placementState, isPlaced, treeScene >>
       ELSE /\ placementState' = "scanning"
            /\ isPlaced' = FALSE
            /\ treeScene' = [treeScene EXCEPT !.visible = FALSE]
            /\ UNCHANGED << objectAnchor, trackAnchoredObject >>
  /\ ev' = [kind |-> "anchor", ok |-> ok]
  /\ UNCHANGED << sceneVars, deviceVars, subscriptionVars, sessionVars,
                  pendingPlacements, visualVars, registryVars >>

\* the continuation of tryCreateAnchor after `await session.createAnchor`
AnchorRequestSettles(i, ok) ==
  /\ i \in DOMAIN anchorRequests
  /\ anchorRequests' = RemoveAt(anchorRequests, i)
  /\ IF ok
       THEN /\ objectAnchor' = [held |-> TRUE,
                                  pose |-> anchorRequests[i].pose,
                                  placedAt |-> anchorRequests[i].placedAt,
                                  current |-> anchorRequests[i].current]
            /\ trackAnchoredObject' = TRUE
       ELSE UNCHANGED << objectAnchor, trackAnchoredObject >>
  /\ ev' = [kind |-> "anchor", ok |-> ok]
  /\ UNCHANGED << placementState, isPlaced, treeScene, sceneVars, deviceVars,
                  subscriptionVars, sessionVars, pendingPlacements,
                  visualVars, registryVars >>

(***************************************************************************)
(* Session                                                                 *)
(***************************************************************************)
\* startAR up to the first frame request: the session's features and
\* whether createTreeScene produced an object
startAR(hitTest, anchors, tree) ==
  /\ session = "none"
  /\ session' = "active"
  /\ hitSupported' = hitTest
  /\ hasAnchors' = anchors
  /\ treeScene' = IF tree THEN [NoTree EXCEPT !.exists = TRUE] ELSE NoTree
  /\ ev' = [kind |-> "start"]
  /\ UNCHANGED << placementState, isPlaced, objectAnchor, trackAnchoredObject,
                  anchorRequests, sceneVars, deviceVars, subscriptionVars,
                  isDisposed, cursorManagerDisposed, planeVisualizerDisposed,
                  pendingPlacements, visualVars, registryVars >>

\* the session's 'end' listener; the three components exist whenever the
\* listener is attached
sessionEnd ==
  /\ session = "active"
  /\ session' = "ended"
  /\ LET m == HitTestManager_dispose(HitTestManagerState)
         cm == CursorManager_dispose(CursorManagerState)
         pv == PlaneVisualizer_dispose(PlaneVisualizerState)
     IN /\ isDisposed' = m.isDisposed
        /\ hitTestSources' = m.sources
        /\ hitTestResults' = m.results
        /\ liveSubs' = m.live
        /\ cursors' = cm.cursors
        /\ liveCursors' = cm.live
        /\ cursorManagerDisposed' = cm.isDisposed
        /\ planeHighlights' = pv.highlights
        /\ liveHighlights' = pv.live
        /\ planeVisualizerDisposed' = pv.isDisposed
  /\ treeScene' = NoTree
  /\ objectAnchor' = NoAnchor
  /\ trackAnchoredObject' = IF objectAnchor.held THEN FALSE
                                                 ELSE trackAnchoredObject
  /\ placementState' = "scanning"
  /\ isPlaced' = FALSE
  /\ availablePlanes' = << >>
  /\ activeInputSources' = {}
  /\ pendingPlacements' = {}
  /\ hitTestSetupInProgress' = FALSE
  /\ pendingHitTestSources' = {}
  /\ setupFailed' = {}
  /\ ev' = [kind |-> "end", sources |-> hitTestSources,
            cursors |-> DOMAIN cursors, highlights |-> planeHighlights]
  /\ UNCHANGED << hitSupported, hasAnchors, anchorRequests, batches,
                  deviceVars, registryVars >>

\* the session's input source list changes
inputSourceAdded(d) ==
  /\ session = "active"
  /\ d \notin Range(inputSources)
  /\ inputSources' = Append(inputSources, d)
  /\ ev' = [kind |-> "added", dev |-> d]
  /\ UNCHANGED << placementVars, sceneVars, subscriptionVars, sessionVars,
                  pendingPlacements, visualVars, registryVars >>

inputSourceRemoved(d) ==
  /\ session = "active"
  /\ d \in Range(inputSources)
  /\ inputSources' = Without(inputSources, d)
  /\ ev' = [kind |-> "removed", dev |-> d]
  /\ UNCHANGED << placementVars, sceneVars, subscriptionVars, sessionVars,
                  pendingPlacements, visualVars, registryVars >>

(***************************************************************************)
(* PlaneDetection (src/src/webxr/planes.js)                                *)
(*                                                                         *)
(* Areas are in square centimetres (1 m2 = 10000), scores in thousandths   *)
(* of a point.  frame.detectedPlanes is an XRPlaneSet: it has `size` and   *)
(* `has`, and no `length`.                                                 *)
(***************************************************************************)
Abs(x) == IF x < 0 THEN -x ELSE x

Min(a, b) == IF a < b THEN a ELSE b

Max(a, b) == IF a > b THEN a ELSE b

\* Math.sqrt of a square number
Sqrt(n) == CHOOSE k \in 0..n : k * k <= n /\ n < (k + 1) * (k + 1)

calculateCenter(polygon) ==
  IF Len(polygon) = 0 THEN <<0, 0, 0>>
  ELSE [c \in 1..3 |-> SumCoord(polygon, c, Len(polygon)) \div Len(polygon)]

\* the shoelace sum over the edges i = n .. Len(polygon), on x and z
RECURSIVE Shoelace(_, _)
Shoelace(polygon, n) ==
  IF n > Len(polygon) THEN 0
  ELSE
    LET j == (n % Len(polygon)) + 1
    IN polygon[n][1] * polygon[j][3] - polygon[j][1] * polygon[n][3]
         + Shoelace(polygon, n + 1)

calculateArea(polygon) ==
  IF Len(polygon) < 3 THEN 0 ELSE Abs(Shoelace(polygon, 1)) \div 2

\* worldVec[i] = sum over j of transformMatrix[i*4 + j] * localVec[j], then
\* the division by worldVec[3].  With lengths in centimetres localVec[3] is
\* 100 and the products of two lengths carry a factor 1/10000.
transformToWorldSpace(localPoint, transformMatrix) ==
  LET worldVec ==
        [i \in 1..3 |->
           transformMatrix[4 * (i - 1) + 1] * localPoint[1]
             + transformMatrix[4 * (i - 1) + 2] * localPoint[2]
             + transformMatrix[4 * (i - 1) + 3] * localPoint[3]
             + transformMatrix[4 * (i - 1) + 4] * 100]
      w == transformMatrix[13] * localPoint[1]
             + transformMatrix[14] * localPoint[2]
             + transformMatrix[15] * localPoint[3]
             + transformMatrix[16] * 10000
  IN [i \in 1..3 |-> (worldVec[i] * 10000) \div w]

\* the plane data of a sighting, as a list: empty for null
analyzePlane(plane) ==
  IF ~plane.resolves THEN << >>
  ELSE
    LET center == calculateCenter(plane.polygon)
    IN << [plane |-> plane.plane,
           orientation |-> plane.orientation,
           pose |-> plane.matrix,
           polygon |-> plane.polygon,
           center |-> center,
           area |-> calculateArea(plane.polygon),
           lastChangedTime |-> plane.lastChangedTime,
           worldCenter |-> transformToWorldSpace(center, plane.matrix)] >>

\* threshold 0.01: 100 cm2 for the area, 1 cm for the centre
hasPlaneChanged(oldPlane, newPlane) ==
  \/ newPlane.lastChangedTime # oldPlane.lastChangedTime
  \/ Abs(newPlane.area - oldPlane.area) > 100
  \/ Abs(newPlane.worldCenter[1] - oldPlane.worldCenter[1]) > 1
  \/ Abs(newPlane.worldCenter[2] - oldPlane.worldCenter[2]) > 1
  \/ Abs(newPlane.worldCenter[3] - oldPlane.worldCenter[3]) > 1

\* the plane data of the sightings of a frame whose pose resolves, in order
RECURSIVE Analyzed(_)
Analyzed(sightings) ==
  IF sightings = << >> THEN << >>
  ELSE analyzePlane(Head(sightings)) \o Analyzed(Tail(sightings))

\* what processFrame returns when it returns the empty array
EmptyArray ==
  [isArray |-> TRUE, all |-> << >>, new |-> << >>, updated |-> << >>,
   horizontal |-> << >>, vertical |-> << >>]

\* variant: the record of a removed plane is kept
processFrame_keepsRemoved(tracked, frame) ==
  IF ~frame.present
    THEN [result |-> EmptyArray, removed |-> {}, tracked |-> tracked]
  ELSE
    LET currentPlanes == Analyzed(frame.planes)
        seen == {frame.planes[i].plane : i \in DOMAIN frame.planes}
        removed == DOMAIN tracked \ seen
    IN [result |->
          [isArray |-> FALSE,
           all |-> currentPlanes,
           new |-> SelectSeq(currentPlanes,
                             LAMBDA p : p.plane \notin DOMAIN tracked),
           updated |-> SelectSeq(currentPlanes,
                         LAMBDA p : /\ p.plane \in DOMAIN tracked
                                    /\ hasPlaneChanged(tracked[p.plane], p)),
           horizontal |-> SelectSeq(currentPlanes,
                            LAMBDA p : p.orientation = "horizontal"),
           vertical |-> SelectSeq(currentPlanes,
                          LAMBDA p : p.orientation = "vertical")],
        removed |-> removed,
        tracked |->
          [h \in DOMAIN tracked
                   \cup {currentPlanes[i].plane : i \in DOMAIN currentPlanes}
             |-> IF \E i \in DOMAIN currentPlanes : currentPlanes[i].plane = h
                   THEN LET i == CHOOSE k \in DOMAIN currentPlanes :
                                   currentPlanes[k].plane = h
                        IN currentPlanes[i]
                   ELSE tracked[h]]]

\* variant: the new plane data is not stored for a plane already tracked
processFrame_noStore(tracked, frame) ==
  IF ~frame.present
    THEN [result |-> EmptyArray, removed |-> {}, tracked |-> tracked]
  ELSE
    LET currentPlanes == Analyzed(frame.planes)
        seen == {frame.planes[i].plane : i \in DOMAIN frame.planes}
        removed == DOMAIN tracked \ seen
    IN [result |->
          [isArray |-> FALSE,
           all |-> currentPlanes,
           new |-> SelectSeq(currentPlanes,
                             LAMBDA p : p.plane \notin DOMAIN tracked),
           updated |-> SelectSeq(currentPlanes,
                         LAMBDA p : /\ p.plane \in DOMAIN tracked
                                    /\ hasPlaneChanged(tracked[p.plane], p)),
           horizontal |-> SelectSeq(currentPlanes,
                            LAMBDA p : p.orientation = "horizontal"),
           vertical |-> SelectSeq(currentPlanes,
                          LAMBDA p : p.orientation = "vertical")],
        removed |-> removed,
        tracked |->
          [h \in (DOMAIN tracked
                    \cup {currentPlanes[i].plane : i \in DOMAIN currentPlanes})
                   \ removed
             |-> IF h \in DOMAIN tracked THEN tracked[h]
                 ELSE LET i == CHOOSE k \in DOMAIN currentPlanes :
                                 currentPlanes[k].plane = h
                      IN currentPlanes[i]]]

\* tracked: this.detectedPlanes.  Returns the result, the planes handed to
\* onPlaneRemoved and the map as the call leaves it.  The length of an
\* XRPlaneSet is undefined, so the early return for `length === 0` is not
\* taken and an empty set runs the loops.
processFrame(tracked, frame) ==
  IF ~frame.present
    THEN [result |-> EmptyArray, removed |-> {}, tracked |-> tracked]
  ELSE
    LET currentPlanes == Analyzed(frame.planes)
        seen == {frame.planes[i].plane : i \in DOMAIN frame.planes}
        removed == DOMAIN tracked \ seen
    IN [result |->
          [isArray |-> FALSE,
           all |-> currentPlanes,
           new |-> SelectSeq(currentPlanes,
                             LAMBDA p : p.plane \notin DOMAIN tracked),
           updated |-> SelectSeq(currentPlanes,
                         LAMBDA p : /\ p.plane \in DOMAIN tracked
                                    /\ hasPlaneChanged(tracked[p.plane], p)),
           horizontal |-> SelectSeq(currentPlanes,
                            LAMBDA p : p.orientation = "horizontal"),
           vertical |-> SelectSeq(currentPlanes,
                          LAMBDA p : p.orientation = "vertical")],
        removed |-> removed,
        tracked |->
          [h \in (DOMAIN tracked
                    \cup {currentPlanes[i].plane : i \in DOMAIN currentPlanes})
                   \ removed
             |-> IF \E i \in DOMAIN currentPlanes : currentPlanes[i].plane = h
                   THEN LET i == CHOOSE k \in DOMAIN currentPlanes :
                                   currentPlanes[k].plane = h
                        IN currentPlanes[i]
                   ELSE tracked[h]]]

\* defaultPrefs: 0.1 m2, 0.7 m and 0.3 m
DefaultPrefs ==
  [orientation |-> "horizontal", minArea |-> 1000, preferredHeight |-> 70,
   heightTolerance |-> 30]

\* with the criteria findBestPlacementPlane passes: orientation and minArea
filterPlanes(planes, criteria) ==
  SelectSeq(planes,
            LAMBDA plane : /\ plane.orientation = criteria.orientation
                           /\ ~(plane.area < criteria.minArea))

\* in thousandths of a point
scorePlane(plane, preferences) ==
  LET areaScore == Min(plane.area, 30000)
      heightDiff == Abs(plane.worldCenter[2] - preferences.preferredHeight)
      heightScore ==
        Max(0, 30000 - (heightDiff * 30000) \div preferences.heightTolerance)
      stabilityScore == 20000
      distance == Sqrt(plane.worldCenter[1] * plane.worldCenter[1]
                         + plane.worldCenter[3] * plane.worldCenter[3])
      accessibilityScore == Max(0, 20000 - distance * 50)
  IN Min(areaScore + heightScore + stabilityScore + accessibilityScore,
         100000)

\* Array.prototype.sort with (a, b) => b.score - a.score is stable: the
\* candidate goes behind every candidate whose score is not lower
RECURSIVE InsertByScore(_, _)
InsertByScore(sorted, candidate) ==
  IF sorted = << >> THEN <<candidate>>
  ELSE IF Head(sorted).score >= candidate.score
    THEN <<Head(sorted)>> \o InsertByScore(Tail(sorted), candidate)
    ELSE <<candidate>> \o sorted

RECURSIVE SortByScore(_)
SortByScore(candidates) ==
  IF candidates = << >> THEN << >>
  ELSE InsertByScore(SortByScore(SubSeq(candidates, 1, Len(candidates) - 1)),
                     candidates[Len(candidates)])

\* variant: the last of the candidates with the highest score
findBestPlacementPlane_lastOfTies(planes, preferences) ==
  IF Len(planes) = 0 THEN << >>
  ELSE
    LET filtered == filterPlanes(planes, preferences)
        candidates ==
          [i \in DOMAIN filtered |->
             [plane |-> filtered[i],
              score |-> scorePlane(filtered[i], preferences)]]
        sorted == SortByScore(candidates)
        top == SelectSeq(sorted, LAMBDA c : c.score = sorted[1].score)
    IN IF Len(candidates) = 0 THEN << >> ELSE <<top[Len(top)]>>

\* returns a list: empty for null, else the candidate (plane and score)
findBestPlacementPlane(planes, preferences) ==
  IF Len(planes) = 0 THEN << >>
  ELSE
    LET filtered == filterPlanes(planes, preferences)
        candidates ==
          [i \in DOMAIN filtered |->
             [plane |-> filtered[i],
              score |-> scorePlane(filtered[i], preferences)]]
        sorted == SortByScore(candidates)
    IN IF Len(candidates) = 0 THEN << >> ELSE <<sorted[1]>>

\* a call of processFrame with the frame's detected planes
Ingest(frame) ==
  /\ \E r \in {processFrame(detectedPlanes, frame)} :
        /\ detectedPlanes' = r.tracked
        /\ ev' = [kind |-> "ingest", frame |-> frame, result |-> r.result,
                  removed |-> r.removed, tracked |-> detectedPlanes,
                  repeated |-> (ev.kind = "ingest" /\ ev.frame = frame)]
  /\ UNCHANGED << placementVars, sceneVars, deviceVars, subscriptionVars,
                  sessionVars, pendingPlacements, visualVars >>

\* a call of findBestPlacementPlane with the default preferences
BestPlacement(planes) ==
  /\ ev' = [kind |-> "best", planes |-> planes,
            result |-> findBestPlacementPlane(planes, DefaultPrefs)]
  /\ UNCHANGED << placementVars, sceneVars, deviceVars, subscriptionVars,
                  sessionVars, pendingPlacements, visualVars, registryVars >>

(***************************************************************************)
(* PlaneVisualizer, called directly                                        *)
(***************************************************************************)
\* what the calls below leave alone
besidesHighlighter ==
  << placementVars, sceneVars, deviceVars, subscriptionVars, session,
     hitSupported, hasAnchors, isDisposed, cursorManagerDisposed,
     pendingPlacements, cursors, liveCursors, registryVars >>

\* a call of updatePlaneHighlighting
HighlighterRefresh(results, planes, raises) ==
  /\ \E pv \in {updatePlaneHighlighting(PlaneVisualizerState, results,
                                         planes, raises)} :
        /\ planeHighlights' = pv.highlights
        /\ liveHighlights' = pv.live
  /\ ev' = [kind |-> "refresh", results |-> results, planes |-> planes,
            raises |-> raises, before |-> planeHighlights,
            disposed |-> planeVisualizerDisposed]
  /\ UNCHANGED << besidesHighlighter, planeVisualizerDisposed >>

\* a call of dispose
HighlighterDispose ==
  /\ \E pv \in {PlaneVisualizer_dispose(PlaneVisualizerState)} :
        /\ planeHighlights' = pv.highlights
        /\ liveHighlights' = pv.live
        /\ planeVisualizerDisposed' = pv.isDisposed
  /\ ev' = [kind |-> "dispose", before |-> planeHighlights]
  /\ UNCHANGED besidesHighlighter

(***************************************************************************)
(* Specification                                                           *)
(***************************************************************************)
Init ==
  /\ session = "none"
  /\ hitSupported = FALSE
  /\ hasAnchors = FALSE
  /\ placementState = "scanning"
  /\ isPlaced = FALSE
  /\ treeScene = NoTree
  /\ availablePlanes = << >>
  /\ objectAnchor = NoAnchor
  /\ trackAnchoredObject = FALSE
  /\ anchorRequests = << >>
  /\ inputSources = << >>
  /\ activeInputSources = {}
  /\ hitTestSetupInProgress = FALSE
  /\ pendingHitTestSources = {}
  /\ batches = << >>
  /\ hitTestSources = {}
  /\ hitTestResults = << >>
  /\ isDisposed = FALSE
  /\ pendingPlacements = {}
  /\ cursors = << >>
  /\ cursorManagerDisposed = FALSE
  /\ planeHighlights = {}
  /\ planeVisualizerDisposed = FALSE
  /\ detectedPlanes = << >>
  /\ liveCursors = [d \in Devices |-> 0]
  /\ liveHighlights = [p \in Planes |-> 0]
  /\ liveSubs = [d \in Devices |-> 0]
  /\ setupFailed = {}
  /\ ev = NoEvent

\* the environment's choices, drawn from the given sets
SelectFrom(devs, poses, unresolvedCases, rayCases) ==
  \E d \in devs, inputPose \in poses :
    \E unresolved \in
         (IF placementState = "placed" THEN {{}} ELSE unresolvedCases),
       rays \in (IF placementState = "placed" THEN rayCases ELSE {{}}) :
      selectHandler(d, inputPose, unresolved, rays)

\* only the queries and lookups the frame performs are drawn
FrameFrom(snapshots, outcomes, lookups) ==
  \E snapshot \in snapshots :
    \E hits \in [Devices ->
                   IF placementState \in {"scanning", "repositioning"}
                        /\ isHitTestSupported
                     THEN outcomes
                     ELSE {[kind |-> "none", pose |-> NoPose]}],
       lookup \in (IF placementState = "placed" /\ trackAnchoredObject
                     THEN lookups ELSE {"same"}) :
      /\ \A d \in Devices \ (hitTestSources \cap Range(inputSources)) :
           hits[d].kind = "none"
      /\ onXRFrame(snapshot, hits, lookup)

RequestSettlesFrom(outcomes) ==
  \E i \in DOMAIN batches, outcome \in outcomes, rejected \in BOOLEAN :
    HitTestRequestSettles(i, outcome, rejected)

AnchorSettles ==
  \E i \in DOMAIN anchorRequests, ok \in BOOLEAN : AnchorRequestSettles(i, ok)

StartFrom(hitTests, anchorss, trees) ==
  \E hitTest \in hitTests, anchors \in anchorss, tree \in trees :
    startAR(hitTest, anchors, tree)

DeviceChangeFrom(devs) ==
  \E d \in devs : inputSourceAdded(d) \/ inputSourceRemoved(d)

SelectPressFrom(devs) ==
  \E d \in devs : selectStartHandler(d) \/ selectEndHandler(d)

\* Placement: one input device, every placement input
Next ==
  \/ StartFrom(BOOLEAN, BOOLEAN, BOOLEAN)
  \/ FrameFrom(FrameSnapshots, HitOutcomes, AnchorLookups)
  \/ SelectFrom({"left"}, DevicePoses \cup {NoPose}, UnresolvedCases, RayCases)
  \/ RequestSettlesFrom({"grant", "fail", "invalid"})
  \/ AnchorSettles
  \/ DeviceChangeFrom({"left"})
  \/ sessionEnd

Spec == Init /\ [][Next]_vars

\* Subscriptions: both input devices, a fixed scene without anchors
NextSubs ==
  \/ StartFrom(BOOLEAN, {FALSE}, {TRUE})
  \/ FrameFrom({[present |-> TRUE, planes |-> <<"near">>]},
               {[kind |-> "none", pose |-> NoPose],
                [kind |-> "hit", pose |-> Pose(<<100, 0, 200>>, QIdentity)]}
                 \cup QueryFailures,
               {"same"})
  \/ SelectFrom(Devices, DevicePoses, {{}}, {{}, {<<"ground", 120>>}})
  \/ RequestSettlesFrom({"grant", "fail", "invalid"})
  \/ DeviceChangeFrom(Devices)
  \/ sessionEnd

SpecSubs == Init /\ [][NextSubs]_vars

\* Subscriptions with every request granted: frames keep coming while the
\* session is active, and a request in flight is eventually answered
NextGranted ==
  \/ StartFrom(BOOLEAN, {FALSE}, {TRUE})
  \/ FrameFrom({[present |-> TRUE, planes |-> <<"near">>]},
               {[kind |-> "none", pose |-> NoPose]}, {"same"})
  \/ RequestSettlesFrom({"grant"})
  \/ DeviceChangeFrom(Devices)
  \/ sessionEnd

SpecGranted ==
  /\ Init /\ [][NextGranted]_vars
  /\ WF_vars(FrameFrom({[present |-> TRUE, planes |-> <<"near">>]},
                       {[kind |-> "none", pose |-> NoPose]}, {"same"}))
  /\ WF_vars(RequestSettlesFrom({"grant"}))

\* Visual feedback: both input devices with hit-testing granted, hit poses
\* at the plane and malformed ones, selects and select presses of one device
NextVisuals ==
  \/ StartFrom({TRUE}, {FALSE}, {TRUE})
  \/ FrameFrom({[present |-> TRUE, planes |-> <<"near">>]},
               {[kind |-> "none", pose |-> NoPose],
                [kind |-> "hit", pose |-> HitPoseAtNear]}
                 \cup {[kind |-> "hit", pose |-> p] : p \in MalformedPoses},
               {"same"})
  \/ SelectFrom({"left"}, DevicePoses, {{}}, {{<<"ground", 120>>}})
  \/ SelectPressFrom({"left"})
  \/ RequestSettlesFrom({"grant"})
  \/ DeviceChangeFrom(Devices)
  \/ sessionEnd

SpecVisuals == Init /\ [][NextVisuals]_vars

\* Failures of a select: sessions with and without hit testing and with and
\* without the object, snapshots with a plane without vertices, hit poses
\* with and without an orientation, selects with and without a device pose
\* and with an unresolved plane pose
NextFailures ==
  \/ StartFrom(BOOLEAN, {FALSE}, BOOLEAN)
  \/ FrameFrom(DegenerateSnapshots,
               {[kind |-> "none", pose |-> NoPose],
                [kind |-> "hit", pose |-> Pose(<<100, 0, 200>>, QIdentity)],
                [kind |-> "hit", pose |-> Pose(<<100, 0, 200>>, << >>)]},
               {"same"})
  \/ SelectFrom({"left"}, DevicePoses \cup {NoPose}, UnresolvedCases,
                {{}, {<<"ground", 120>>}})
  \/ RequestSettlesFrom({"grant"})
  \/ DeviceChangeFrom({"left"})

SpecFailures == Init /\ [][NextFailures]_vars

\* The plane visualizer on its own: refreshes with every result map and
\* plane list, with and without a failure, before and after dispose
NextHighlighter ==
  \/ \E results \in HighlighterResults, planes \in HighlighterPlanes,
        raises \in BOOLEAN : HighlighterRefresh(results, planes, raises)
  \/ HighlighterDispose

SpecHighlighter == Init /\ [][NextHighlighter]_vars

\* plane data lists of up to three different planes
ScoringLists ==
  LET data == {analyzePlane(x)[1] : x \in ScoringSightings}
  IN { l \in UNION {[1..n -> data] : n \in 0..3} :
         \A i, j \in DOMAIN l : i # j => l[i] # l[j] }

\* The plane registry on its own: every frame after every frame
NextRegistry == \E frame \in RegistryFrames : Ingest(frame)

SpecRegistry == Init /\ [][NextRegistry]_vars

\* The choice of a placement plane from every list
NextScoring == \E planes \in ScoringLists : BestPlacement(planes)

SpecScoring == Init /\ [][NextScoring]_vars

TypeOK ==
  /\ session \in {"none", "active", "ended"}
  /\ placementState \in {"scanning", "targeting", "preview", "placed",
                         "repositioning"}
  /\ activeInputSources \subseteq Devices
  /\ pendingHitTestSources \subseteq Devices
  /\ hitTestSources \subseteq Devices

(***************************************************************************)
(* Properties                                                              *)
(***************************************************************************)
\* world-space centroid of each plane's polygon, worked out by hand
WorldCentre ==
  [near |-> <<100, 0, 0>>, edge |-> <<200, 0, 0>>, far |-> <<250, 0, 0>>,
   wall |-> <<0, 100, -100>>]

Raised(p) == <<p[1], p[2] + OBJECT_HEIGHT_OFFSET, p[3]>>

\* the select just handled had a resolvable device pose and its ray's
\* nearest intersection with the object is within reach
RayReaches(e) ==
  /\ e.inputPose.ok
  /\ \E h \in e.rays : h[2] <= MAX_INTERACTION_DISTANCE

\* number of subscription requests in flight for device d
Outstanding(d) == Cardinality({i \in DOMAIN batches : batches[i].cur = d})

\* C1: within a session the placement state changes only by
\* scanning -> placed (a select that places the object), placed ->
\* repositioning (a select whose ray reaches the object) and repositioning
\* -> placed (a select that re-places the object).
C1_Transitions ==
  [][ (session = "active" /\ session' = "active"
         /\ placementState' # placementState)
      => /\ ev'.kind = "select"
         /\ \/ /\ placementState = "scanning" /\ placementState' = "placed"
               /\ treeScene'.visible /\ isPlaced'
            \/ /\ placementState = "placed"
               /\ placementState' = "repositioning"
               /\ RayReaches(ev')
            \/ /\ placementState = "repositioning"
               /\ placementState' = "placed"
               /\ treeScene'.visible ]_vars

C1_Witness ==
  /\ session = "active"
  /\ ev.kind = "select" /\ ev.pre = "repositioning"
  /\ placementState = "placed"

\* C2: the placement state is always scanning, placed or repositioning.
C2_OnlyThreeStates ==
  placementState \in {"scanning", "placed", "repositioning"}

C2_Witness ==
  /\ ev.kind = "select" /\ ev.pre = "placed"
  /\ placementState = "repositioning"

\* C3: in scanning, a select from a device with a live hit-test result
\* places the object at the hit position raised by the height offset, with
\* the hit pose's orientation, visible, and the state becomes placed.
C3_HitTestPlaces ==
  [][ (session = "active" /\ ev'.kind = "select"
         /\ placementState = "scanning" /\ treeScene.exists
         /\ isHitTestSupported /\ ev'.dev \in DOMAIN hitTestResults)
      => /\ treeScene'.pos = Raised(hitTestResults[ev'.dev].pose.pos)
         /\ treeScene'.quat = hitTestResults[ev'.dev].pose.quat
         /\ treeScene'.visible
         /\ placementState' = "placed" ]_vars

\* C4: in placed, a select whose ray has its nearest intersection with the
\* object within 3 m changes the state to repositioning and sets the
\* opacity of the object's materials to 0.7.
C4_SelectObject ==
  [][ (session = "active" /\ ev'.kind = "select" /\ placementState = "placed"
         /\ RayReaches(ev'))
      => /\ placementState' = "repositioning"
         /\ treeScene'.opacity = REPOSITIONING_OPACITY ]_vars

C4_Witness ==
  /\ ev.kind = "select" /\ ev.pre = "placed"
  /\ ev.rays = {<<"ground", 350>>, <<"tree", 120>>}
  /\ placementState = "repositioning"
  /\ treeScene.opacity = REPOSITIONING_OPACITY

\* C5: in placed, a select whose ray misses the object, or reaches it only
\* beyond 3 m, or whose device pose cannot be resolved, leaves the
\* placement state, isPlaced, the object and the anchor state unchanged.
C5_MissChangesNothing ==
  [][ (session = "active" /\ ev'.kind = "select" /\ placementState = "placed"
         /\ ~RayReaches(ev'))
      => UNCHANGED << placementState, isPlaced, treeScene, objectAnchor,
                      trackAnchoredObject >> ]_vars

C5_Witness ==
  /\ ev.kind = "select" /\ ev.pre = "placed"
  /\ ev.inputPose.ok
  /\ ev.rays = {<<"ground", 301>>, <<"tree", 350>>}
  /\ placementState = "placed"
  /\ objectAnchor.held

\* C6: in scanning, a select from a device without a hit-test result, when
\* no available surface has its centroid nearer than 2.0 m to the device,
\* leaves the state scanning and the object hidden.
C6_NoSurfaceInRange ==
  [][ (session = "active" /\ ev'.kind = "select"
         /\ placementState = "scanning"
         /\ ev'.dev \notin DOMAIN hitTestResults
         /\ \A i \in DOMAIN availablePlanes :
              Distance2(ev'.inputPose.pos, WorldCentre[availablePlanes[i]])
                >= MAX_PLACEMENT_DISTANCE * MAX_PLACEMENT_DISTANCE)
      => /\ placementState' = "scanning"
         /\ ~treeScene'.visible ]_vars

C6_Witness ==
  /\ ev.kind = "select" /\ ev.pre = "scanning"
  /\ ev.inputPose.ok
  /\ ev.dev \notin DOMAIN hitTestResults
  /\ availablePlanes = <<"edge", "far">>
  /\ treeScene.exists
  /\ placementState = "scanning"

\* C7: at most one subscription request is outstanding per device, and a
\* device never holds more than one granted, uncancelled subscription.
C7_NoDuplicateSubscription ==
  \A d \in Devices : Outstanding(d) <= 1 /\ liveSubs[d] <= 1

\* "left" was removed and came back while its request was in flight, and
\* the frame that saw it come back issued no second request
C7_Witness ==
  /\ ev.kind = "tick"
  /\ hitTestSetupInProgress
  /\ Outstanding("left") = 1
  /\ "left" \in activeInputSources
  /\ "left" \notin pendingHitTestSources

\* C8: when a setup batch settles, fulfilled or rejected, every device of
\* the batch leaves the pending set and the in-progress flag is cleared;
\* every device still pending belongs to a batch in flight.
C8_SettleClearsPending ==
  [][ (ev'.kind = "request" /\ Len(batches') < Len(batches))
      => /\ pendingHitTestSources' \cap Range(ev'.all) = {}
         /\ ~hitTestSetupInProgress'
         /\ \A d \in pendingHitTestSources' :
              \E i \in DOMAIN batches' : d \in Range(batches'[i].all) ]_vars

C8_Witness ==
  /\ ev.kind = "request" /\ ev.done /\ ev.rejected
  /\ Len(ev.all) = 2
  /\ session = "active"
  /\ pendingHitTestSources = {}
  /\ ~hitTestSetupInProgress

\* C9: after a device's subscription request failed, the next
\* ensureSubscriptions call made while the device is still active and no
\* setup is in flight issues a new request for it.
C9_RetryAfterFailure ==
  [][ \A d \in Devices :
        (session = "active" /\ ev'.kind = "tick"
           /\ placementState \in {"scanning", "repositioning"}
           /\ isHitTestSupported
           /\ d \in setupFailed /\ d \in activeInputSources
           /\ d \in Range(inputSources) /\ d \notin hitTestSources
           /\ batches = << >> /\ ~hitTestSetupInProgress)
        => \E i \in DOMAIN batches' : batches'[i].cur = d ]_vars

\* C10: a device that stays in the session's device list while the state
\* is scanning or repositioning, with hit-testing supported and requests
\* succeeding, eventually holds a subscription.
C10_EventuallySubscribed ==
  \A d \in Devices :
    <>[](session = "active" /\ hitSupported
           /\ placementState \in {"scanning", "repositioning"}
           /\ d \in Range(inputSources))
      => []<>(d \in hitTestSources)

\* C11: once the hit-test manager is disposed, every subscription it was
\* granted has been cancelled and it holds no subscription and no result,
\* also when a request issued before dispose is granted afterwards;
\* setupHitTestSources and updateHitTests change nothing and the read
\* accessors return null / an empty map.
C11_DisposedHoldsNothing ==
  isDisposed =>
    /\ hitTestSources = {}
    /\ hitTestResults = << >>
    /\ \A d \in Devices : liveSubs[d] = 0
    /\ \A d \in Devices : setupHitTestSources(<<d>>) = << >>
    /\ \A hits \in [Devices -> HitOutcomes] :
         updateHitTests(hitTestSources, hitTestResults, hits) = hitTestResults
    /\ \A d \in Devices : getHitTestResult(d) = NoResult
    /\ getAllHitTestResults = << >>

\* C12: a frame tick that finds an active device missing from the session's
\* input sources removes it from the active set, cancels and removes its
\* hit-test subscription and result, destroys its cursor and clears its
\* pending-placement and pending-setup entries, all in that tick.
C12_RemovedDeviceReleased ==
  [][ \A d \in Devices :
        (ev'.kind = "tick" /\ placementState \in {"scanning", "repositioning"}
           /\ d \in activeInputSources /\ d \notin Range(inputSources))
        => /\ d \notin activeInputSources'
           /\ d \notin hitTestSources'
           /\ d \notin DOMAIN hitTestResults'
           /\ liveSubs'[d] =
                IF d \in hitTestSources THEN liveSubs[d] - 1 ELSE liveSubs[d]
           /\ d \notin DOMAIN cursors'
           /\ liveCursors'[d] =
                IF d \in DOMAIN cursors THEN liveCursors[d] - 1
                                        ELSE liveCursors[d]
           /\ liveCursors'[d] = 0
           /\ d \notin pendingPlacements'
           /\ d \notin pendingHitTestSources' ]_vars

\* the tick released the subscription and the cursor of "left", which had
\* gone, and kept those of "right"
C12_Witness ==
  /\ ev.kind = "tick"
  /\ ev.removed = {"left"} /\ ev.cancelled = {"left"}
  /\ ev.destroyed = {"left"}
  /\ liveSubs["left"] = 0 /\ liveCursors["left"] = 0
  /\ "right" \in hitTestSources /\ "right" \in DOMAIN cursors

\* C13: after every frame tick, in every placement state, the tracked
\* device set equals the session's input sources and no hit-test
\* subscription or cursor exists for a device that is no longer present.
C13_ReconciledEveryTick ==
  [][ (session = "active" /\ ev'.kind = "tick")
      => /\ activeInputSources' = Range(inputSources')
         /\ hitTestSources' \subseteq Range(inputSources')
         /\ DOMAIN cursors' \subseteq Range(inputSources') ]_vars

\* C14: a select that places or re-places the object from a device's
\* hit-test result reads a result stored by the most recent frame.
C14_ResultFromLatestFrame ==
  [][ (session = "active" /\ ev'.kind = "select"
         /\ placementState \in {"scanning", "repositioning"}
         /\ placementState' = "placed"
         /\ isHitTestSupported
         /\ getHitTestResult(ev'.dev).pose.ok)
      => getHitTestResult(ev'.dev).age = 0 ]_vars

\* the tick just taken ran updateHitTests on a manager that is not disposed
Refreshed ==
  /\ ev'.kind = "tick"
  /\ placementState \in {"scanning", "repositioning"}
  /\ isHitTestSupported
  /\ activeInputSources' # {} /\ hitTestSources' # {}

\* C15: after updateHitTests the result map holds exactly one entry for
\* each subscribed device whose query returned a first hit with a pose,
\* stamped with this frame's time; nothing of an earlier frame remains, and
\* a query that raises does not stop the other devices' queries.
C15_RefreshReplacesResults ==
  [][ Refreshed
      => /\ DOMAIN hitTestResults' =
              {d \in hitTestSources' : ev'.hits[d].kind = "hit"}
         /\ \A d \in DOMAIN hitTestResults' :
              hitTestResults'[d] = [pose |-> ev'.hits[d].pose, age |-> 0] ]_vars

\* the query of "left", which had a result, raised in this frame and the
\* result of "right" was stored all the same
C15_Witness ==
  /\ ev.kind = "tick" /\ ev.pre = "scanning"
  /\ ev.hits["left"].kind = "throw"
  /\ {"left", "right"} \subseteq hitTestSources
  /\ DOMAIN hitTestResults = {"right"}
  /\ hitTestResults["right"].age = 0
  /\ "left" \in DOMAIN cursors

\* C16: cleanupInactiveSources cancels, once each, and removes exactly the
\* subscriptions and results of the devices that are not active, and leaves
\* those of the active devices as they were.
C16_RetireExactlyInactive ==
  [][ (ev'.kind = "tick" /\ placementState \in {"scanning", "repositioning"})
      => LET currentSources == Range(inputSources)
             c == cleanupInactiveSources(hitTestSources, hitTestResults,
                                         liveSubs, currentSources)
         IN /\ c.sources = hitTestSources \cap currentSources
            /\ DOMAIN c.results = DOMAIN hitTestResults \cap currentSources
            /\ \A d \in DOMAIN c.results : c.results[d] = hitTestResults[d]
            /\ \A d \in Devices :
                 c.live[d] = IF d \in hitTestSources \ currentSources
                               THEN liveSubs[d] - 1 ELSE liveSubs[d]
            /\ hitTestSources' = c.sources
            /\ liveSubs' = c.live
            /\ DOMAIN hitTestResults' \subseteq c.sources ]_vars

\* the tick cancelled the subscription of "left", which had gone, and kept
\* the subscription of "right"
C16_Witness ==
  /\ ev.kind = "tick"
  /\ ev.cancelled = {"left"}
  /\ liveSubs["left"] = 0
  /\ "right" \in hitTestSources /\ liveSubs["right"] = 1

\* how often dispose has to cancel or destroy each resource of `held`
Released(live, held) ==
  [x \in DOMAIN live |-> IF x \in held THEN live[x] - 1 ELSE live[x]]

\* C17: for the hit-test manager, the cursor manager and the plane
\* visualizer, dispose followed by dispose leaves the state of a single
\* dispose, and a dispose of a component that is not disposed cancels or
\* destroys each resource the component holds exactly once.
C17_DisposeTwice ==
  LET m == HitTestManagerState
      cm == CursorManagerState
      pv == PlaneVisualizerState
      m1 == HitTestManager_dispose(m)
      cm1 == CursorManager_dispose(cm)
      pv1 == PlaneVisualizer_dispose(pv)
  IN /\ HitTestManager_dispose(m1) = m1
     /\ CursorManager_dispose(cm1) = cm1
     /\ PlaneVisualizer_dispose(pv1) = pv1
     /\ m1.isDisposed /\ cm1.isDisposed /\ pv1.isDisposed
     /\ ~m.isDisposed
          => m1 = [sources |-> {}, results |-> << >>,
                   live |-> Released(m.live, m.sources), isDisposed |-> TRUE]
     /\ ~cm.isDisposed
          => cm1 = [cursors |-> << >>,
                    live |-> Released(cm.live, DOMAIN cm.cursors),
                    isDisposed |-> TRUE]
     /\ ~pv.isDisposed
          => pv1 = [highlights |-> {},
                    live |-> Released(pv.live, pv.highlights),
                    isDisposed |-> TRUE]
     /\ (ev.kind = "end" /\ session = "ended")
          => /\ \A d \in Devices : liveSubs[d] = 0 /\ liveCursors[d] = 0
             /\ \A p \in Planes : liveHighlights[p] = 0

\* the session's end disposed a manager with a subscription, a cursor
\* manager with a cursor and a visualizer with a highlight
C17_Witness ==
  /\ ev.kind = "end"
  /\ ev.sources # {} /\ ev.cursors # {} /\ ev.highlights # {}
  /\ isDisposed /\ cursorManagerDisposed /\ planeVisualizerDisposed

\* C18: when the session ends the hit-test manager, the cursor manager and
\* the plane visualizer are disposed, the placement state is scanning with
\* isPlaced false, the available planes, the active input sources, the
\* pending placements and the pending hit-test sources are empty and the
\* setup-in-progress flag is cleared.
C18_SessionEndResets ==
  [][ (session = "active" /\ session' = "ended")
      => /\ ev'.kind = "end"
         /\ isDisposed' /\ hitTestSources' = {} /\ hitTestResults' = << >>
         /\ cursorManagerDisposed' /\ cursors' = << >>
         /\ planeVisualizerDisposed' /\ planeHighlights' = {}
         /\ placementState' = "scanning" /\ ~isPlaced'
         /\ availablePlanes' = << >>
         /\ activeInputSources' = {}
         /\ pendingPlacements' = {}
         /\ pendingHitTestSources' = {}
         /\ ~hitTestSetupInProgress' ]_vars

\* the session ended while a setup was in flight, with a highlight shown
C18_Witness ==
  /\ ev.kind = "end" /\ session = "ended"
  /\ batches # << >>
  /\ ev.sources # {} /\ ev.highlights # {}
  /\ placementState = "scanning" /\ ~hitTestSetupInProgress

\* a pose with a position and an orientation
WellFormed(pose) == pose.ok /\ Len(pose.pos) = 3 /\ Len(pose.quat) = 4

\* the tick just taken called updateCursors with the frame's results
CursorsUpdated ==
  /\ ev'.kind = "tick"
  /\ placementState \in {"scanning", "repositioning"}
  /\ activeInputSources' # {}
  /\ DOMAIN hitTestResults' # {}

\* C19: in updateCursors a hit result whose pose lacks a position or an
\* orientation leaves that device's cursor hidden, and the cursors of the
\* other devices with a result are still shown at their hit poses.
C19_MalformedPoseHidden ==
  [][ CursorsUpdated
      => \A d \in DOMAIN hitTestResults' :
           /\ d \in DOMAIN cursors'
           /\ IF WellFormed(hitTestResults'[d].pose)
                THEN /\ cursors'[d].visible
                     /\ cursors'[d].quat = hitTestResults'[d].pose.quat
                ELSE ~cursors'[d].visible ]_vars

\* C20: at most one cursor exists per device; a cursor is created only for
\* a device that has a hit result and no cursor yet; while the device stays
\* in the session its cursor is kept: a tick without a result for the
\* device hides it where it is, and a tick with a result shows it again.
C20_OneCursorPerDevice ==
  [][ \A d \in Devices :
        /\ liveCursors'[d] <= 1
        /\ (d \in DOMAIN cursors') <=> (liveCursors'[d] = 1)
        /\ liveCursors'[d] > liveCursors[d]
             => /\ d \notin DOMAIN cursors
                /\ ev'.kind = "tick" /\ d \in DOMAIN hitTestResults'
        /\ (session' = "active" /\ d \in DOMAIN cursors
              /\ (ev'.kind = "tick" /\ ev'.pre # "placed"
                    => d \in Range(inputSources)))
             => /\ d \in DOMAIN cursors'
                /\ liveCursors'[d] = liveCursors[d]
        /\ (ev'.kind = "tick" /\ ev'.pre # "placed"
              /\ d \in DOMAIN cursors /\ d \in Range(inputSources))
             => IF d \in DOMAIN hitTestResults'
                  THEN cursors'[d].visible
                  ELSE cursors'[d] = [cursors[d] EXCEPT !.visible = FALSE] ]_vars

\* the cursor of "left", shown by an earlier tick, was hidden and kept by a
\* tick without a result for "left" while "right" had one
C20_Witness ==
  /\ ev.kind = "tick" /\ ev.pre = "scanning"
  /\ "left" \in DOMAIN cursors /\ ~cursors["left"].visible
  /\ cursors["left"].pos = <<550, 1, -500>>
  /\ liveCursors["left"] = 1
  /\ "left" \notin DOMAIN hitTestResults
  /\ "right" \in DOMAIN hitTestResults

\* the tick just taken called updatePlaneHighlighting with the frame's
\* results and the available planes
HighlightsRefreshed ==
  /\ ev'.kind = "tick"
  /\ placementState \in {"scanning", "repositioning"}
  /\ activeInputSources' # {}
  /\ Len(availablePlanes) > 0
  /\ DOMAIN hitTestResults' # {}

\* the planes of `planes` whose polygon centroid is nearest to the position
\* of one of the results, among those within the proximity threshold
CentroidTargets(results, planes) ==
  { p \in Range(planes) :
      \E d \in DOMAIN results :
         /\ results[d].pose.ok /\ Len(results[d].pose.pos) = 3
         /\ Distance2(results[d].pose.pos, WorldCentre[p])
              < PROXIMITY_THRESHOLD * PROXIMITY_THRESHOLD
         /\ \A q \in Range(planes) :
              Distance2(results[d].pose.pos, WorldCentre[p])
                <= Distance2(results[d].pose.pos, WorldCentre[q]) }

\* C21: the planes highlighted by a refresh are, over all hit results, the
\* available plane whose centroid is nearest to the hit position among the
\* planes with the centroid within 10 cm of it; a result with no such plane
\* targets none.
C21_TargetedByCentroid ==
  [][ HighlightsRefreshed
      => planeHighlights'
           = { p \in CentroidTargets(hitTestResults', availablePlanes) :
                 createPlaneHighlight(p) } ]_vars

\* the planes a call of updatePlaneHighlighting targets
TargetedSet(results, planes) ==
  {findPlaneNearHitTest(results[d], planes) : d \in DOMAIN results} \ {"none"}

\* C22: after a call of updatePlaneHighlighting a highlight exists only for
\* planes the call targets: the highlight of every plane that is no longer
\* targeted has been destroyed, and when the plane list is empty, the
\* visualizer is disposed or the call fails, no highlight is left.
C22_OnlyTargetedHighlighted ==
  [][ ev'.kind = "refresh"
      => /\ planeHighlights' \subseteq TargetedSet(ev'.results, ev'.planes)
         /\ \A p \in Planes : liveHighlights'[p]
                                = IF p \in planeHighlights' THEN 1 ELSE 0
         /\ (Len(ev'.planes) = 0 \/ planeVisualizerDisposed \/ ev'.raises)
              => planeHighlights' = {} ]_vars

\* a refresh removed the highlight of "near", no longer targeted, and
\* created the one of "far"
C22_Witness ==
  /\ ev.kind = "refresh" /\ ~ev.raises /\ ~ev.disposed
  /\ ev.before = {"near"}
  /\ ev.planes = <<"near", "far">>
  /\ planeHighlights = {"far"}
  /\ liveHighlights["near"] = 0

\* the horizontal planes of a frame's snapshot, in its order
HorizontalOf(snapshot) ==
  SelectSeq(snapshot.planes,
            LAMBDA p : PlaneInfo[p].orientation = "horizontal")

\* C23: after each tick of a frame that carries a snapshot the available
\* planes are exactly the horizontal planes of that snapshot, also when the
\* snapshot is empty: a plane absent from the snapshot is not available
\* after the tick.
C23_AvailableIsSnapshot ==
  [][ (ev'.kind = "tick" /\ ev'.snapshot.present)
      => availablePlanes' = HorizontalOf(ev'.snapshot) ]_vars

\* the handles of the planes a frame shows, and those of a list of plane data
Shown(frame) == {frame.planes[i].plane : i \in DOMAIN frame.planes}

Listed(planes) == {planes[i].plane : i \in DOMAIN planes}

\* C24: when processFrame is given a snapshot, the tracked planes that are
\* not in it are handed to onPlaneRemoved and their records are deleted; a
\* plane reported by one call is not reported by the next unless it was
\* seen again; and no result lists a plane its frame does not show.
C24_RemovedOnce ==
  [][ ev'.kind = "ingest"
      => /\ Listed(ev'.result.all) \subseteq Shown(ev'.frame)
         /\ ev'.frame.present
              => /\ ev'.removed = DOMAIN detectedPlanes \ Shown(ev'.frame)
                 /\ DOMAIN detectedPlanes' \cap ev'.removed = {}
                 /\ DOMAIN detectedPlanes' \subseteq Shown(ev'.frame)
         /\ ev.kind = "ingest"
              => ev'.removed \cap ev.removed = {} ]_vars

\* "table", tracked with "wall", was missing from the frame and removed
C24_Witness ==
  /\ ev.kind = "ingest"
  /\ DOMAIN ev.tracked = {"table", "wall"}
  /\ ev.removed = {"table"}
  /\ DOMAIN detectedPlanes = {"wall"}
  /\ Listed(ev.result.all) = {"wall"}

\* C25: a call of processFrame with the snapshot of the call before it,
\* nothing changed, yields no new, no updated and no removed plane, and
\* `all` lists the planes of the snapshot whose pose resolves.
C25_SameSnapshotTwice ==
  [][ (ev'.kind = "ingest" /\ ev'.repeated /\ ev'.frame.present)
      => /\ ev'.result.new = << >>
         /\ ev'.result.updated = << >>
         /\ ev'.removed = {}
         /\ Listed(ev'.result.all)
              = {ev'.frame.planes[i].plane :
                   i \in {k \in DOMAIN ev'.frame.planes :
                            ev'.frame.planes[k].resolves}}
         /\ Len(ev'.result.all) = Cardinality(Listed(ev'.result.all)) ]_vars

\* the same frame, with "table" resolved and "wall" not, was processed
\* twice in a row
C25_Witness ==
  /\ ev.kind = "ingest" /\ ev.repeated
  /\ Shown(ev.frame) = {"table", "wall"}
  /\ Listed(ev.result.all) = {"table"}
  /\ ev.result.new = << >> /\ ev.result.updated = << >>

\* the centroid of the polygon of a plane data record in the reference
\* space: its centre taken through the pose matrix
Centroid(data) ==
  LET c == multiplyMatrixAndPoint(data.pose,
             <<data.center[1], data.center[2], data.center[3], 1>>)
  IN <<c[1], c[2], c[3]>>

\* C26: a tracked plane seen again is reported updated exactly when its
\* change time differs, or its centroid moved by more than 1 cm, or its area
\* changed by more than 0.01 m2.
C26_ChangeTest ==
  [][ ev'.kind = "ingest"
      => \A i \in DOMAIN ev'.result.all :
           LET newPlane == ev'.result.all[i]
           IN newPlane.plane \in DOMAIN detectedPlanes
                => LET oldPlane == detectedPlanes[newPlane.plane]
                   IN (newPlane \in Range(ev'.result.updated))
                        <=> \/ newPlane.lastChangedTime
                                 # oldPlane.lastChangedTime
                            \/ Distance2(Centroid(newPlane),
                                         Centroid(oldPlane)) > 1
                            \/ Abs(newPlane.area - oldPlane.area) > 100 ]_vars

PlacementResolved ==
  /\ ev'.kind = "select"
  /\ ev'.pre \in {"scanning", "repositioning"}
  /\ Len(availablePlanes) # 0
  /\ ResolvePlacement(This, ev'.dev, ev'.inputPose, ev'.unresolved).ok

\* C28: a placement or re-placement that resolves leaves the state placed
\* and the object visible, with anchors unsupported or a request issued; the
\* completion of a createAnchor request, resolved or rejected, leaves the
\* state and the visibility alone, and a rejected one leaves the transform,
\* the anchor and the tracking flag as they were.
C28_AnchorBestEffort ==
  [][ /\ PlacementResolved
         => /\ placementState' = "placed"
            /\ isPlaced'
            /\ treeScene'.exists /\ treeScene'.visible
            /\ hasAnchors => Len(anchorRequests') = Len(anchorRequests) + 1
            /\ ~hasAnchors => anchorRequests' = anchorRequests
      /\ ev'.kind = "anchor"
         => /\ placementState' = placementState
            /\ isPlaced' = isPlaced
            /\ treeScene'.visible = treeScene.visible
            /\ ~ev'.ok => /\ treeScene' = treeScene
                          /\ objectAnchor' = objectAnchor
                          /\ trackAnchoredObject' = trackAnchoredObject
    ]_vars

\* a createAnchor request was rejected after a placement: the object is
\* placed, visible, raised above the hit point, and no anchor is held
C28_Witness ==
  /\ ev.kind = "anchor" /\ ~ev.ok
  /\ placementState = "placed" /\ isPlaced
  /\ treeScene.visible
  /\ treeScene.pos = Raised(<<100, 0, 200>>)
  /\ ~objectAnchor.held /\ ~trackAnchoredObject

\* C29: in placed with tracking on, a frame whose anchor lookup returns no
\* pose or raises turns tracking off, keeps the object's transform and the
\* anchor, and completes (the plane scan of the frame has been applied);
\* tracking goes from off to on only when a createAnchor request resolves.
C29_FailedLookupStopsTracking ==
  [][ /\ ( /\ ev'.kind = "tick"
           /\ placementState = "placed"
           /\ trackAnchoredObject /\ objectAnchor.held /\ treeScene.exists
           /\ ev'.lookup \in {"null", "throw"} )
         => /\ ~trackAnchoredObject'
            /\ treeScene' = treeScene
            /\ objectAnchor' = objectAnchor
            /\ placementState' = "placed"
            /\ availablePlanes' = scanForPlanes(ev'.snapshot)
      /\ (~trackAnchoredObject /\ trackAnchoredObject')
         => ev'.kind = "anchor" /\ ev'.ok
    ]_vars

\* the object followed its anchor (one drift step from the hit pose), then a
\* lookup raised: tracking is off and the object is where it last was
C29_Witness ==
  /\ ev.kind = "tick" /\ ev.lookup = "throw"
  /\ placementState = "placed"
  /\ objectAnchor.held /\ ~trackAnchoredObject
  /\ treeScene.pos = Raised(<<101, 0, 200>>)

\* the select just handled in placed could not start an interaction: no
\* visible object or no device pose
InteractionFailed ==
  /\ ev'.kind = "select" /\ ev'.pre = "placed"
  /\ (~treeScene.exists \/ ~treeScene.visible \/ ~ev'.inputPose.ok)

FallbackSelect ==
  /\ ev'.kind = "select"
  /\ placementState \in {"scanning", "repositioning"}
  /\ ~(isHitTestSupported /\ getHitTestResult(ev'.dev).pose.ok)
  /\ ev'.inputPose.ok
  /\ treeScene.exists

\* the available planes whose pose resolves, whose centroid is nearest to
\* the position among those, and nearer than the maximum distance
NearestInRange(position, unresolved) ==
  LET resolved == {i \in DOMAIN availablePlanes :
                     availablePlanes[i] \notin unresolved}
      d2(i) == Distance2(position, WorldCentre[availablePlanes[i]])
  IN { i \in resolved :
         /\ d2(i) < MAX_PLACEMENT_DISTANCE * MAX_PLACEMENT_DISTANCE
         /\ \A j \in resolved : d2(i) <= d2(j) }

\* C31: without a usable hit-test result the object goes to the centroid,
\* raised by the height offset, of the resolvable available plane nearest to
\* the device position, if that plane is nearer than 2 m; otherwise the
\* attempt changes neither the state nor the object.
C31_FallbackNearestCentroid ==
  [][ FallbackSelect
      => IF NearestInRange(ev'.inputPose.pos, ev'.unresolved) = {}
           THEN placementState' = placementState /\ treeScene' = treeScene
           ELSE /\ \E i \in NearestInRange(ev'.inputPose.pos, ev'.unresolved) :
                     treeScene'.pos = Raised(WorldCentre[availablePlanes[i]])
                /\ treeScene'.visible
                /\ placementState' = "placed"
    ]_vars

\* placed through the fallback on "near", the second of two available
\* planes, the first being out of range
C31_Witness ==
  /\ ev.kind = "select" /\ ev.pre = "scanning"
  /\ ev.inputPose.ok /\ ev.unresolved = {}
  /\ ev.dev \notin DOMAIN hitTestResults
  /\ availablePlanes = <<"far", "near">>
  /\ placementState = "placed"
  /\ treeScene.pos = Raised(<<100, 0, 0>>)

\* C32: a placement or re-placement through the plane fallback keeps the
\* object's orientation; of the object only the position and the visibility
\* change (and, on a re-placement, the opacity that finishRepositioning
\* restores).
C32_FallbackKeepsOrientation ==
  [][ (FallbackSelect
         /\ NearestInRange(ev'.inputPose.pos, ev'.unresolved) # {})
      => /\ placementState' = "placed"
         /\ treeScene'.quat = treeScene.quat
         /\ treeScene' = [treeScene EXCEPT !.pos = treeScene'.pos,
                                           !.visible = TRUE,
                                           !.opacity = FULL_OPACITY]
    ]_vars

\* the object got a turned orientation from a hit-test placement and was
\* then re-placed on "near" through the fallback: it is still turned
C32_Witness ==
  /\ ev.kind = "select" /\ ev.pre = "repositioning"
  /\ ev.dev \notin DOMAIN hitTestResults
  /\ placementState = "placed"
  /\ treeScene.pos = Raised(<<100, 0, 0>>)
  /\ treeScene.quat = QTurned

\* C33: a placement or re-placement attempt after which the state is not
\* placed leaves the object's position, orientation and visibility as they
\* were before the select.
C33_FailedAttemptKeepsTransform ==
  [][ ( /\ ev'.kind = "select"
        /\ ev'.pre \in {"scanning", "repositioning"}
        /\ placementState' # "placed" )
      => /\ treeScene'.pos = treeScene.pos
         /\ treeScene'.quat = treeScene.quat
         /\ treeScene'.visible = treeScene.visible
    ]_vars

\* a frame in placed in which the anchor drives the object
AnchorDrives ==
  /\ ev'.kind = "tick"
  /\ placementState = "placed"
  /\ trackAnchoredObject /\ objectAnchor.held /\ treeScene.exists
  /\ ev'.lookup \in {"same", "drift"}

\* C34: when the anchor of the latest placement reports the pose it was
\* created at, the frame leaves the object at the position that placement
\* committed.
C34_AnchorKeepsCommittedPosition ==
  [][ (AnchorDrives /\ ev'.lookup = "same" /\ objectAnchor.current)
      => treeScene'.pos = objectAnchor.placedAt ]_vars

\* C35: whenever a frame in placed takes the object's transform from the
\* anchor, the anchor is the one requested by the latest successful
\* placement.
C35_AnchorOfLatestPlacement ==
  [][ AnchorDrives => objectAnchor.current ]_vars

\* C36: in scanning and in repositioning no anchor is held and tracking is
\* off; in every state tracking on implies an anchor is held.
C36_NoAnchorOutsidePlaced ==
  /\ placementState \in {"scanning", "repositioning"}
       => ~objectAnchor.held /\ ~trackAnchoredObject
  /\ trackAnchoredObject => objectAnchor.held

\* C37: between handlers, isPlaced is true exactly when the placement state
\* is placed.
C37_FlagMatchesState ==
  isPlaced <=> placementState = "placed"

\* the flag went false on entering repositioning and is true again after the
\* re-placement
C37_Witness ==
  /\ ev.kind = "select" /\ ev.pre = "repositioning"
  /\ placementState = "placed" /\ isPlaced

\* C38: while the session is active the object is visible exactly when the
\* state is placed or repositioning, and a visible object stays visible as
\* long as the session stays active.
C38_VisibleIffPlaced ==
  [][ /\ session' = "active"
         => (treeScene'.visible
               <=> placementState' \in {"placed", "repositioning"})
      /\ (session = "active" /\ session' = "active" /\ treeScene.visible)
         => treeScene'.visible
    ]_vars

\* the object is being moved and is still visible
C38_Witness ==
  /\ session = "active"
  /\ ev.kind = "select" /\ ev.pre = "placed"
  /\ placementState = "repositioning"
  /\ treeScene.visible

\* C39: the opacity of the object's materials is 0.7 exactly while the state
\* is repositioning, and 1.0 in scanning and in placed.
C39_OpacityFollowsState ==
  treeScene.opacity = IF placementState = "repositioning"
                        THEN REPOSITIONING_OPACITY
                        ELSE FULL_OPACITY

\* back in placed after a re-placement, with the opacity restored
C39_Witness ==
  /\ ev.kind = "select" /\ ev.pre = "repositioning"
  /\ placementState = "placed"
  /\ treeScene.exists /\ treeScene.visible
  /\ treeScene.opacity = FULL_OPACITY

\* C40: whenever the state is placed, every cursor indicator is hidden and
\* no plane highlight exists.
C40_NoFeedbackWhilePlaced ==
  placementState = "placed"
    => /\ \A d \in DOMAIN cursors : ~cursors[d].visible
       /\ planeHighlights = {}
       /\ \A p \in Planes : liveHighlights[p] = 0

\* a frame spent in placed, with the indicators of both devices created
\* before the placement and hidden
C40_Witness ==
  /\ ev.kind = "tick" /\ ev.pre = "placed"
  /\ placementState = "placed"
  /\ DOMAIN cursors = Devices
  /\ \A d \in Devices : ~cursors[d].visible /\ liveCursors[d] = 1

=============================================================================
